---------------------------- MODULE Spec2Model ----------------------------
(***************************************************************************)
(* A model of the license-plate recognition service:                       *)
(*   - the validator and the format registry (pure functions),             *)
(*   - the OCR engine's aggregation of raw segments,                       *)
(*   - the recognition orchestrator (process_image_array and its retry     *)
(*     loop) as a step machine,                                            *)
(*   - the job runner (the Celery task), the submit and reprocess          *)
(*     endpoints and the task queue.                                       *)
(*                                                                         *)
(* Texts are sequences of one-character strings.  Confidences are exact    *)
(* rationals <<n, d>> in lowest terms with d > 0 (the code uses floats).   *)
(***************************************************************************)
EXTENDS Integers, Sequences, FiniteSets, TLC

VARIABLES
    \* the recognition service and one call of process_image_array
    config,                \* RecognitionConfig
    yolo_loadable,         \* environment: whether the YOLO model can be loaded
    detector,              \* [obj, initialized]: _detector, _detector_initialized
    pc,                    \* position in process_image_array
    image,
    detection_confidence,
    bounding_box,
    plate_image,
    processing_metadata,   \* [attempts, stages_applied]
    ocr_result,
    validation,
    overall_confidence,
    retry,                 \* locals of _retry_with_preprocessing
    result,                \* the RecognitionResult returned
    hist,                  \* history of the call (not program state)
    \* one job: its row, the task queue and the worker's executions
    row,                   \* the committed recognition_requests row
    queue,                 \* task messages: [task_id, retries, countdown]
    worker,                \* per worker process: the execution it runs
    runs,                  \* executions started so far, per task
    next_task,             \* the next task id .delay() hands out
    event,                 \* the handler that ran last (not program state)
    \* lazily initialised handles under threads sharing them
    handles,               \* per handle: [value, initialized]; value 0 is None
    threads,               \* per thread: its position in a handle's accessor
    constructed,           \* instances constructed so far, per handle
    observed,              \* instances the accessors have returned, per handle
    \* one call of a function of the validation, OCR or detection packages
    fn_pc,                 \* "idle", "call" (arguments bound) or "return"
    fn_call,               \* the function called and its arguments
    fn_return              \* what it returned

svcVars == <<config, yolo_loadable, detector>>
callVars ==
    <<pc, image, detection_confidence, bounding_box, plate_image,
      processing_metadata, ocr_result, validation, overall_confidence,
      retry, result, hist>>
jobVars == <<row, queue, worker, runs, next_task, event>>
lazyVars == <<handles, threads, constructed, observed>>
fnVars == <<fn_pc, fn_call, fn_return>>
vars == <<svcVars, callVars, jobVars, lazyVars, fnVars>>

(***************************************************************************)
(* Rational arithmetic for confidences.                                    *)
(***************************************************************************)
RECURSIVE Gcd(_, _)
Gcd(a, b) == IF b = 0 THEN a ELSE Gcd(b, a % b)

Abs(a) == IF a < 0 THEN -a ELSE a
Min(a, b) == IF a < b THEN a ELSE b
Max(a, b) == IF a > b THEN a ELSE b

R(n, d) ==
    LET g == Gcd(Abs(n), d)
    IN  IF n = 0 THEN <<0, 1>> ELSE <<n \div g, d \div g>>

RAdd(p, q) == R(p[1] * q[2] + q[1] * p[2], p[2] * q[2])
RSub(p, q) == R(p[1] * q[2] - q[1] * p[2], p[2] * q[2])
RMul(p, q) == R(p[1] * q[1], p[2] * q[2])
RDivInt(p, k) == R(p[1], p[2] * k)
RLt(p, q) == p[1] * q[2] < q[1] * p[2]
RLe(p, q) == p[1] * q[2] <= q[1] * p[2]
RGt(p, q) == RLt(q, p)
RGe(p, q) == RLe(q, p)
RMax(p, q) == IF RLt(p, q) THEN q ELSE p
Zero == <<0, 1>>
One == <<1, 1>>

RECURSIVE RSum(_)
RSum(s) == IF s = <<>> THEN Zero ELSE RAdd(s[1], RSum(Tail(s)))

(***************************************************************************)
(* Characters.                                                             *)
(***************************************************************************)
UpperLetters ==
    <<"A", "B", "C", "D", "E", "F", "G", "H", "I", "J", "K", "L", "M",
      "N", "O", "P", "Q", "R", "S", "T", "U", "V", "W", "X", "Y", "Z">>
LowerLetters ==
    <<"a", "b", "c", "d", "e", "f", "g", "h", "i", "j", "k", "l", "m",
      "n", "o", "p", "q", "r", "s", "t", "u", "v", "w", "x", "y", "z">>
Range(s) == {s[i] : i \in DOMAIN s}
Letters == Range(UpperLetters)
Lowers == Range(LowerLetters)
Digits == {"0", "1", "2", "3", "4", "5", "6", "7", "8", "9"}
Whitespace == {" "}

\* str.upper() on one character
Upper(c) ==
    IF c \in Lowers
    THEN UpperLetters[CHOOSE i \in DOMAIN LowerLetters : LowerLetters[i] = c]
    ELSE c

IsAlpha(c) == c \in Letters \cup Lowers
IsDigit(c) == c \in Digits
IsAlnum(c) == IsAlpha(c) \/ IsDigit(c)

RECURSIVE MapUpper(_)
MapUpper(t) == IF t = <<>> THEN <<>> ELSE <<Upper(Head(t))>> \o MapUpper(Tail(t))

RECURSIVE Join(_)
\* "".join(texts)
Join(ts) == IF ts = <<>> THEN <<>> ELSE Head(ts) \o Join(Tail(ts))

\* Python None: NoneStr where a string is expected (a region, a format name,
\* a position type, a corrected character), None where a text is expected
NoneStr == "None"
None == <<"None">>

(***************************************************************************)
(* Plate rules (rules/brazil.py).                                          *)
(***************************************************************************)
RuleNames == <<"BR_MERCOSUL", "BR_OLD">>

position_types(rule) ==
    IF rule = "BR_MERCOSUL"
    THEN <<"letter", "letter", "letter", "digit", "letter", "digit", "digit">>
    ELSE <<"letter", "letter", "letter", "digit", "digit", "digit", "digit">>

\* position is 0-based as in the code
get_position_type(rule, position) ==
    IF position + 1 \in DOMAIN position_types(rule)
    THEN position_types(rule)[position + 1]
    ELSE NoneStr

letter_to_digit ==
    [c \in {"O", "Q", "D", "I", "L", "Z", "S", "G", "B"} |->
        CASE c \in {"O", "Q", "D"} -> "0"
          [] c \in {"I", "L"} -> "1"
          [] c = "Z" -> "2"
          [] c = "S" -> "5"
          [] c = "G" -> "6"
          [] c = "B" -> "8"]

digit_to_letter ==
    [c \in {"0", "1", "2", "5", "6", "8"} |->
        CASE c = "0" -> "O"
          [] c = "1" -> "I"
          [] c = "2" -> "Z"
          [] c = "5" -> "S"
          [] c = "6" -> "G"
          [] c = "8" -> "B"]

\* dict.get: the table's value, or None
TableGet(table, c) == IF c \in DOMAIN table THEN table[c] ELSE NoneStr

\* a correction that looks the character up in both tables
get_correction_any_table(rule, char, position) ==
    IF get_position_type(rule, position) = NoneStr THEN NoneStr
    ELSE IF Upper(char) \in DOMAIN digit_to_letter THEN digit_to_letter[Upper(char)]
    ELSE TableGet(letter_to_digit, Upper(char))

get_correction(rule, char, position) ==
    LET expected_type == get_position_type(rule, position)
        char_upper == Upper(char)
    IN  IF expected_type = NoneStr THEN NoneStr
        ELSE IF expected_type = "letter"
             THEN IF IsDigit(char_upper)
                  THEN TableGet(digit_to_letter, char_upper) ELSE NoneStr
             ELSE IF expected_type = "digit"
             THEN IF IsAlpha(char_upper)
                  THEN TableGet(letter_to_digit, char_upper) ELSE NoneStr
             ELSE NoneStr

rule_region(rule) == "BR"

AllIn(text, from, to, class) == \A i \in from..to : text[i] \in class

\* re.match(rule.pattern, text) for ^[A-Z]{3}\d[A-Z]\d{2}$ and ^[A-Z]{3}\d{4}$
\* (texts hold no line break, so $ is the end of the text)
pattern_matches(rule, text) ==
    IF rule = "BR_MERCOSUL"
    THEN /\ Len(text) = 7
         /\ AllIn(text, 1, 3, Letters)
         /\ text[4] \in Digits
         /\ text[5] \in Letters
         /\ AllIn(text, 6, 7, Digits)
    ELSE /\ Len(text) = 7
         /\ AllIn(text, 1, 3, Letters)
         /\ AllIn(text, 4, 7, Digits)

\* len(rule.example): both examples, ABC1D23 and ABC1234, have 7 characters
get_plate_length(rule) == Len(position_types(rule))

(***************************************************************************)
(* PlateFormatRegistry (formats.py).  A match is <<rule name, score>>.     *)
(***************************************************************************)
\* re.sub(r"[\s\-]", "", text.upper())
PlateFormatRegistry_normalize(text) ==
    SelectSeq(MapUpper(text), LAMBDA c : c \notin Whitespace \cup {"-"})

\* the formats registered for a region, in registration order
registry_formats(region) == IF region = "BR" THEN RuleNames ELSE <<>>

calculate_match_score(text, fmt) ==
    LET expected_len == get_plate_length(fmt)
        len_diff == Abs(Len(text) - expected_len)
        length_score == RSub(One, RMul(R(len_diff, 1), R(2, 10)))
        total_positions == IF Len(text) < expected_len THEN Len(text) ELSE expected_len
        correct_positions ==
            Cardinality({i \in 0..(total_positions - 1) :
                LET expected_type == get_position_type(fmt, i)
                    char == text[i + 1]
                IN  \/ expected_type = "letter" /\ IsAlpha(char)
                    \/ expected_type = "digit" /\ IsDigit(char)})
        position_score ==
            IF total_positions > 0 THEN R(correct_positions, total_positions) ELSE Zero
    IN  IF len_diff > 2 THEN Zero
        ELSE IF Len(text) = 0 THEN Zero
        ELSE RAdd(RMul(length_score, R(3, 10)), RMul(position_score, R(7, 10)))

RECURSIVE BestPartial(_, _, _, _)
\* the loop "if score > best_score: best_score, best_match = score, fmt"
BestPartial(normalized, formats, best_match, best_score) ==
    IF formats = <<>> THEN <<best_match, best_score>>
    ELSE LET fmt == Head(formats)
             score == calculate_match_score(normalized, fmt)
         IN  IF RGt(score, best_score)
             THEN BestPartial(normalized, Tail(formats), fmt, score)
             ELSE BestPartial(normalized, Tail(formats), best_match, best_score)

MatchFormats(normalized, formats) ==
    LET exact == SelectSeq(formats, LAMBDA f : pattern_matches(f, normalized))
    IN  IF exact # <<>> THEN <<Head(exact), One>>
        ELSE BestPartial(normalized, formats, NoneStr, Zero)

match_with_region(text, region) ==
    MatchFormats(PlateFormatRegistry_normalize(text), registry_formats(region))

\* match: every region's formats; BR is the only region registered
match(text) ==
    MatchFormats(PlateFormatRegistry_normalize(text), registry_formats("BR"))

(***************************************************************************)
(* PlateValidator (validator.py).                                          *)
(***************************************************************************)
min_length == 6
max_length == 8
correction_confidence_penalty == R(5, 100)

BLACKLIST ==
    { <<"B", "R", "A", "S", "I", "L">>,
      <<"B", "R", "A", "Z", "I", "L">>,
      <<"M", "E", "R", "C", "O", "S", "U", "L">>,
      <<"M", "E", "R", "C", "O", "S", "U", "R">>,
      <<"B", "R">> }

\* re.sub(r"[^A-Za-z0-9]", "", text).upper()
PlateValidator_normalize(text) == MapUpper(SelectSeq(text, IsAlnum))

is_blacklisted(text) == text \in BLACKLIST

\* a length test that accepts every non-empty text
is_nonempty_length(text) == Len(text) > 0

is_valid_length(text) == min_length <= Len(text) /\ Len(text) <= max_length

looks_like_plate(text) ==
    /\ \E i \in DOMAIN text : IsAlpha(text[i])
    /\ \E i \in DOMAIN text : IsDigit(text[i])

RECURSIVE ApplyFrom(_, _, _, _)
\* _apply_corrections from 0-based position i on: <<chars, corrections>>
ApplyFrom(chars, rule, i, corrections) ==
    IF i >= Len(chars) THEN <<chars, corrections>>
    ELSE LET expected_type == get_position_type(rule, i)
             char == chars[i + 1]
             correction == IF expected_type = NoneStr THEN NoneStr
                           ELSE get_correction(rule, char, i)
         IN  IF correction # NoneStr
             THEN ApplyFrom([chars EXCEPT ![i + 1] = correction], rule, i + 1,
                            Append(corrections,
                                   [position |-> i, original |-> char,
                                    corrected |-> correction,
                                    reason |-> IF expected_type = "letter"
                                               THEN "expected_letter"
                                               ELSE "expected_digit"]))
             ELSE ApplyFrom(chars, rule, i + 1, corrections)

apply_corrections(text, rule) == ApplyFrom(text, rule, 0, <<>>)

ValidationResult(text, original, confidence, region, format_name, corrections, is_valid) ==
    [text |-> text, original_text |-> original, confidence |-> confidence,
     region |-> region, format_name |-> format_name,
     corrections_made |-> corrections, is_valid |-> is_valid]

\* lines 138-158: no format matched
validate_no_format(original, normalized, ocr_confidence, region) ==
    IF looks_like_plate(normalized)
    THEN ValidationResult(normalized, original, RMul(ocr_confidence, R(5, 10)),
                          region, NoneStr, <<>>, FALSE)
    ELSE ValidationResult(normalized, original, Zero, NoneStr, NoneStr, <<>>, FALSE)

\* a corrected result whose confidence ignores the match score
validate_corrected_unscaled(original, normalized, ocr_confidence, region, m, ac) ==
    IF pattern_matches(m[1], ac[1])
    THEN ValidationResult(
             ac[1], original,
             RMax(Zero, RSub(ocr_confidence,
                             RMul(R(Len(ac[2]), 1), correction_confidence_penalty))),
             rule_region(m[1]), m[1], ac[2], TRUE)
    ELSE validate_no_format(original, normalized, ocr_confidence, region)

\* lines 122-136: ac is what _apply_corrections returned, <<corrected, corrections>>
validate_corrected(original, normalized, ocr_confidence, region, m, ac) ==
    IF pattern_matches(m[1], ac[1])
    THEN ValidationResult(
             ac[1], original,
             RMax(Zero, RSub(RMul(ocr_confidence, m[2]),
                             RMul(R(Len(ac[2]), 1), correction_confidence_penalty))),
             rule_region(m[1]), m[1], ac[2], TRUE)
    ELSE validate_no_format(original, normalized, ocr_confidence, region)

\* lines 104-136: m is what the registry returned, <<format_match, match_score>>
validate_matched(original, normalized, ocr_confidence, region, m) ==
    IF m[1] # NoneStr /\ m[2] = One
    THEN ValidationResult(normalized, original, ocr_confidence,
                          rule_region(m[1]), m[1], <<>>, TRUE)
    ELSE IF m[1] # NoneStr
    THEN validate_corrected(original, normalized, ocr_confidence, region, m,
                            apply_corrections(normalized, m[1]))
    ELSE validate_no_format(original, normalized, ocr_confidence, region)

\* lines 72-102
validate_normalized(original, normalized, ocr_confidence, region) ==
    IF is_blacklisted(normalized)
    THEN ValidationResult(normalized, original, Zero, NoneStr, NoneStr, <<>>, FALSE)
    ELSE IF ~is_valid_length(normalized)
    THEN ValidationResult(normalized, original, RMul(ocr_confidence, R(3, 10)),
                          NoneStr, NoneStr, <<>>, FALSE)
    ELSE validate_matched(original, normalized, ocr_confidence, region,
                          IF region # NoneStr
                          THEN match_with_region(normalized, region)
                          ELSE match(normalized))

\* PlateValidator.validate; region is a region code or NoneStr
validate(text, ocr_confidence, region) ==
    validate_normalized(text, PlateValidator_normalize(text), ocr_confidence, region)

\* an order by confidence alone
BatchBeforeByConfidence(r, q) == RGt(r.confidence, q.confidence)

\* list.sort(key = (is_valid, confidence), reverse = True): r goes before q
BatchBefore(r, q) ==
    \/ r.is_valid /\ ~q.is_valid
    \/ r.is_valid = q.is_valid /\ RGt(r.confidence, q.confidence)

RECURSIVE BatchInsert(_, _)
\* stable insertion of r into the sorted list s
BatchInsert(s, r) ==
    IF s = <<>> THEN <<r>>
    ELSE IF BatchBefore(r, Head(s)) THEN <<r>> \o s
    ELSE <<Head(s)>> \o BatchInsert(Tail(s), r)

RECURSIVE BatchSort(_, _)
BatchSort(s, acc) ==
    IF s = <<>> THEN acc ELSE BatchSort(Tail(s), BatchInsert(acc, Head(s)))

\* "if result.is_valid or result.confidence > 0: results.append(result)"
BatchKeep(res) ==
    IF res.is_valid \/ RGt(res.confidence, Zero) THEN <<res>> ELSE <<>>

RECURSIVE BatchResults(_, _)
\* the results kept by validate_batch, in candidate order
BatchResults(candidates, region) ==
    IF candidates = <<>> THEN <<>>
    ELSE BatchKeep(validate(Head(candidates)[1], Head(candidates)[2], region))
         \o BatchResults(Tail(candidates), region)

\* a ValidationResult, or NoValidation for None
NoValidation ==
    ValidationResult(None, None, Zero, NoneStr, NoneStr, <<>>, FALSE)

BatchHead(results) ==
    IF results = <<>> THEN NoValidation ELSE Head(BatchSort(results, <<>>))

validate_batch(candidates, region) == BatchHead(BatchResults(candidates, region))

(***************************************************************************)
(* OCR engine (ocr/engine.py, ocr/easyocr_engine.py).  A raw segment is    *)
(* [text, conf]: the engine's (bbox, text, conf) without the geometry,     *)
(* which nothing downstream reads.                                         *)
(***************************************************************************)
min_ocr_confidence == R(3, 10)

Seg(text, conf) == [text |-> text, conf |-> conf]

OCRResult(text, confidence, raw_results) ==
    [text |-> text, confidence |-> confidence, raw_results |-> raw_results]

EmptyOCRResult == OCRResult(<<>>, Zero, <<>>)

RECURSIVE SegTexts(_)
SegTexts(segs) == IF segs = <<>> THEN <<>> ELSE <<Head(segs).text>> \o SegTexts(Tail(segs))

RECURSIVE SegConfs(_)
SegConfs(segs) == IF segs = <<>> THEN <<>> ELSE <<Head(segs).conf>> \o SegConfs(Tail(segs))

\* lines 96-105: accepted are the segments that passed min_confidence
aggregate_segments(results, accepted) ==
    OCRResult(Join(SegTexts(accepted)),
              IF Len(accepted) > 0
              THEN RDivInt(RSum(SegConfs(accepted)), Len(accepted))
              ELSE Zero,
              results)

\* EasyOCREngine.extract_text on the reader's output `results`;
\* reader_raises: readtext (or loading the reader) raised
extract_text(results, reader_raises) ==
    IF reader_raises \/ results = <<>> THEN EmptyOCRResult
    ELSE aggregate_segments(
             results,
             SelectSeq(results, LAMBDA r : RGe(r.conf, min_ocr_confidence)))

RECURSIVE ConfInsert(_, _)
\* stable insertion by confidence, descending
ConfInsert(s, c) ==
    IF s = <<>> THEN <<c>>
    ELSE IF RGt(c[2], Head(s)[2]) THEN <<c>> \o s
    ELSE <<Head(s)>> \o ConfInsert(Tail(s), c)

RECURSIVE ConfSort(_, _)
ConfSort(s, acc) ==
    IF s = <<>> THEN acc ELSE ConfSort(Tail(s), ConfInsert(acc, Head(s)))

RECURSIVE SegPairs(_)
SegPairs(segs) ==
    IF segs = <<>> THEN <<>>
    ELSE <<<<Head(segs).text, Head(segs).conf>>>> \o SegPairs(Tail(segs))

\* OCREngine.get_candidates: <<text, confidence>> pairs
get_candidates(ocr, min_confidence) ==
    ConfSort(SegPairs(SelectSeq(ocr.raw_results,
                                LAMBDA r : RGe(r.conf, min_confidence))), <<>>)

(***************************************************************************)
(* Candidate assembly and validation (recognition.py).                     *)
(***************************************************************************)
HasText(candidates, text) == \E k \in DOMAIN candidates : candidates[k][1] = text

\* candidates.append(c) unless its text is already there
AppendNew(candidates, c) ==
    IF HasText(candidates, c[1]) THEN candidates ELSE Append(candidates, c)

RECURSIVE AppendAllNew(_, _)
AppendAllNew(candidates, cs) ==
    IF cs = <<>> THEN candidates
    ELSE AppendAllNew(AppendNew(candidates, Head(cs)), Tail(cs))

RECURSIVE FindIter(_, _, _)
\* re.finditer(pattern, cleaned): the non-overlapping matches from 1-based
\* position i on, left to right (the patterns here carry no anchors)
FindIter(rule, cleaned, i) ==
    IF i + 6 > Len(cleaned) THEN <<>>
    ELSE IF pattern_matches(rule, SubSeq(cleaned, i, i + 6))
    THEN <<SubSeq(cleaned, i, i + 6)>> \o FindIter(rule, cleaned, i + 7)
    ELSE FindIter(rule, cleaned, i + 1)

RECURSIVE PlatePairs(_, _)
PlatePairs(plates, conf) ==
    IF plates = <<>> THEN <<>>
    ELSE <<<<Head(plates), conf>>>> \o PlatePairs(Tail(plates), conf)

\* the matches of both patterns in the cleaned text, Mercosul first
FindPlates(cleaned) ==
    FindIter("BR_MERCOSUL", cleaned, 1) \o FindIter("BR_OLD", cleaned, 1)

extract_plate_substrings(text, confidence) ==
    AppendAllNew(<<>>, PlatePairs(FindPlates(MapUpper(SelectSeq(text, IsAlnum))),
                                  RMul(confidence, R(95, 100))))

\* a concatenation of whatever passes in the slice
ConcatSliceOfKept(slice, kept, candidates) ==
    IF Len(kept) >= 2
    THEN AppendNew(candidates,
                   <<Join(SegTexts(kept)), RDivInt(RSum(SegConfs(kept)), Len(kept))>>)
    ELSE candidates

\* lines 282-287 for the slice raw[i:j]; kept are its segments that pass
ConcatSlice(slice, kept, candidates) ==
    IF Len(kept) = Len(slice)
    THEN AppendNew(candidates,
                   <<Join(SegTexts(kept)), RDivInt(RSum(SegConfs(slice)), Len(slice))>>)
    ELSE candidates

RECURSIVE ConcatInner(_, _, _, _)
\* the inner loop "for j in range(i + 2, min(i + 4, len(raw) + 1))", i 0-based
ConcatInner(raw, i, j, candidates) ==
    IF j >= Min(i + 4, Len(raw) + 1) THEN candidates
    ELSE ConcatInner(raw, i, j + 1,
             ConcatSlice(SubSeq(raw, i + 1, j),
                         SelectSeq(SubSeq(raw, i + 1, j),
                                   LAMBDA r : RGe(r.conf, min_ocr_confidence)),
                         candidates))

RECURSIVE ConcatOuter(_, _, _)
ConcatOuter(raw, i, candidates) ==
    IF i >= Len(raw) THEN candidates
    ELSE ConcatOuter(raw, i + 1, ConcatInner(raw, i, i + 2, candidates))

RECURSIVE ExtractAll(_, _)
\* "for text, conf in list(candidates)": snapshot is the list iterated
ExtractAll(snapshot, candidates) ==
    IF snapshot = <<>> THEN candidates
    ELSE ExtractAll(Tail(snapshot),
             AppendAllNew(candidates,
                 extract_plate_substrings(Head(snapshot)[1], Head(snapshot)[2])))

\* lines 272-275: the combined text joins the candidates
AddCombined(ocr, candidates) ==
    IF ocr.text # <<>> /\ RGe(ocr.confidence, min_ocr_confidence)
    THEN AppendNew(candidates, <<ocr.text, ocr.confidence>>)
    ELSE candidates

\* lines 291-295
AddExtracted(candidates) == ExtractAll(candidates, candidates)

\* the candidate list _validate_ocr_result hands to validate_batch
assemble_candidates(ocr) ==
    AddExtracted(
        ConcatOuter(ocr.raw_results, 0,
                    AddCombined(ocr, get_candidates(ocr, min_ocr_confidence))))

default_region == "BR"

\* a fallback that keeps the validator's zero
batch_or_first_unscored(candidates, res) ==
    IF res # NoValidation THEN res
    ELSE ValidationResult(candidates[1][1], candidates[1][1], Zero,
                          NoneStr, NoneStr, <<>>, FALSE)

\* lines 312-323: res is what validate_batch returned
batch_or_first(candidates, res) ==
    IF res # NoValidation THEN res
    ELSE ValidationResult(candidates[1][1], candidates[1][1],
                          RMul(candidates[1][2], R(3, 10)),
                          NoneStr, NoneStr, <<>>, FALSE)

\* lines 297-323
validate_candidates(candidates) ==
    IF candidates = <<>>
    THEN ValidationResult(<<>>, <<>>, Zero, NoneStr, NoneStr, <<>>, FALSE)
    ELSE batch_or_first(candidates, validate_batch(candidates, default_region))

validate_ocr_result(ocr) == validate_candidates(assemble_candidates(ocr))

(***************************************************************************)
(* Detection (detection/detector.py, detection/yolo_detector.py).          *)
(* An image is its size [w, h]; a crop is the rectangle [x1, y1, x2, y2]   *)
(* of the image it was cut from.                                           *)
(***************************************************************************)
BoundingBox(x, y, width, height) == [x |-> x, y |-> y, width |-> width, height |-> height]

\* None where a bounding box is expected
NoBox == BoundingBox(-1, -1, -1, -1)

from_xyxy(x1, y1, x2, y2) == BoundingBox(x1, y1, x2 - x1, y2 - y1)

to_xyxy(box) == <<box.x, box.y, box.x + box.width, box.y + box.height>>

add_padding(box, padding, img) ==
    BoundingBox(Max(0, box.x - padding),
                Max(0, box.y - padding),
                Min(img.w - Max(0, box.x - padding), box.width + 2 * padding),
                Min(img.h - Max(0, box.y - padding), box.height + 2 * padding))

DetectionResult(box, confidence, class_name) ==
    [bounding_box |-> box, confidence |-> confidence, class_name |-> class_name]

\* None where a DetectionResult is expected
NoDetection == DetectionResult(NoBox, Zero, None)

Region(x1, y1, x2, y2) == [x1 |-> x1, y1 |-> y1, x2 |-> x2, y2 |-> y2]

WholeImage(img) == Region(0, 0, img.w, img.h)

\* image[y1:y2, x1:x2].copy()
crop_plate(img, detection, padding) ==
    LET c == to_xyxy(add_padding(detection.bounding_box, padding, img))
    IN  Region(c[1], c[2], c[3], c[4])

Lower(c) ==
    IF c \in Letters
    THEN LowerLetters[CHOOSE i \in DOMAIN UpperLetters : UpperLetters[i] = c]
    ELSE c

RECURSIVE MapLower(_)
MapLower(t) == IF t = <<>> THEN <<>> ELSE <<Lower(Head(t))>> \o MapLower(Tail(t))

RECURSIVE ReplaceChars(_, _, _)
\* str.replace of the one-character strings in `from` by `to`
ReplaceChars(t, from, to) ==
    IF t = <<>> THEN <<>>
    ELSE <<IF Head(t) \in from THEN to ELSE Head(t)>> \o ReplaceChars(Tail(t), from, to)

\* sub in t
Contains(t, sub) ==
    \E i \in 1..(Len(t) - Len(sub) + 1) : SubSeq(t, i, i + Len(sub) - 1) = sub

plate_class_names ==
    { <<"l", "i", "c", "e", "n", "s", "e", "_", "p", "l", "a", "t", "e">>,
      <<"l", "i", "c", "e", "n", "s", "e", " ", "p", "l", "a", "t", "e">>,
      <<"p", "l", "a", "t", "e">>,
      <<"n", "u", "m", "b", "e", "r", "_", "p", "l", "a", "t", "e">>,
      <<"n", "u", "m", "b", "e", "r", " ", "p", "l", "a", "t", "e">>,
      <<"c", "a", "r", "_", "p", "l", "a", "t", "e">>,
      <<"v", "e", "h", "i", "c", "l", "e", "_", "p", "l", "a", "t", "e">> }

vehicle_class_names ==
    { <<"c", "a", "r">>, <<"t", "r", "u", "c", "k">>, <<"b", "u", "s">>, <<"v", "e", "h", "i", "c", "l", "e">> }

is_plate_class(class_name) ==
    LET name_lower == ReplaceChars(MapLower(class_name), {"-", " "}, "_")
    IN  name_lower \in plate_class_names \/ Contains(name_lower, <<"p", "l", "a", "t", "e">>)

detection_confidence_threshold == R(5, 10)

RECURSIVE DetInsert(_, _)
\* stable insertion by confidence, descending
DetInsert(s, d) ==
    IF s = <<>> THEN <<d>>
    ELSE IF RGt(d.confidence, Head(s).confidence) THEN <<d>> \o s
    ELSE <<Head(s)>> \o DetInsert(Tail(s), d)

RECURSIVE DetSort(_, _)
DetSort(s, acc) ==
    IF s = <<>> THEN acc ELSE DetSort(Tail(s), DetInsert(acc, Head(s)))

RECURSIVE AcceptBoxes(_)
\* the loop over result.boxes: a box is [xyxy, conf, class_name]
AcceptBoxes(boxes) ==
    IF boxes = <<>> THEN <<>>
    ELSE LET b == Head(boxes)
             is_plate == is_plate_class(b.class_name)
             is_vehicle == MapLower(b.class_name) \in vehicle_class_names
         IN  (IF is_plate \/ is_vehicle
              THEN <<DetectionResult(
                        from_xyxy(b.xyxy[1], b.xyxy[2], b.xyxy[3], b.xyxy[4]),
                        b.conf, b.class_name)>>
              ELSE <<>>)
             \o AcceptBoxes(Tail(boxes))

\* YOLOPlateDetector.detect_all; model_raises: loading the model or predict
\* raised; boxes: the boxes of results[0]
yolo_detect_all(boxes, model_raises) ==
    IF model_raises THEN <<>>
    ELSE IF boxes = <<>> THEN <<>>
    ELSE DetSort(AcceptBoxes(boxes), <<>>)

RECURSIVE MaxByConfidence(_, _)
\* max(detections, key = confidence): the first of the largest
MaxByConfidence(s, best) ==
    IF s = <<>> THEN best
    ELSE MaxByConfidence(Tail(s),
             IF RGt(Head(s).confidence, best.confidence) THEN Head(s) ELSE best)

yolo_detect(boxes, model_raises) ==
    LET detections == yolo_detect_all(boxes, model_raises)
    IN  IF detections = <<>> THEN NoDetection
        ELSE MaxByConfidence(Tail(detections), Head(detections))

\* FallbackDetector with padding_ratio = min(0.5, max(0, 0.1)) = 1/10;
\* int(w * 0.1) is w \div 10
fallback_detect(img) ==
    LET pad_x == img.w \div 10
        pad_y == img.h \div 10
    IN  DetectionResult(
            BoundingBox(pad_x, pad_y, img.w - 2 * pad_x, img.h - 2 * pad_y),
            R(5, 10), <<"f", "a", "l", "l", "b", "a", "c", "k", "_", "r", "e", "g", "i", "o", "n">>)

(***************************************************************************)
(* The recognition orchestrator (recognition.py).                          *)
(***************************************************************************)
needs_review_threshold == R(6, 10)
auto_accept_threshold == R(85, 100)
detection_padding == 10

\* bounds of the model
MaxAttempts == 5

Images ==
    { [w |-> 200, h |-> 60], [w |-> 300, h |-> 200], [w |-> 800, h |-> 200],
      [w |-> 640, h |-> 480], [w |-> 1000, h |-> 800] }

Box(x1, y1, x2, y2, conf, class_name) ==
    [xyxy |-> <<x1, y1, x2, y2>>, conf |-> conf, class_name |-> class_name]

\* outputs of the detection model's predict (confidences pass conf = 0.5)
Inferences ==
    { <<>>,
      <<Box(400, 300, 560, 350, R(9, 10), <<"l", "i", "c", "e", "n", "s", "e", "_", "p", "l", "a", "t", "e">>)>>,
      <<Box(100, 100, 600, 450, R(95, 100), <<"c", "a", "r">>),
        Box(300, 350, 420, 390, R(6, 10), <<"L", "i", "c", "e", "n", "s", "e", "-", "P", "l", "a", "t", "e">>)>>,
      <<Box(0, 5, 120, 45, R(7, 10), <<"p", "l", "a", "t", "e">>),
        Box(10, 10, 50, 90, R(9, 10), <<"p", "e", "r", "s", "o", "n">>)>> }

\* outputs of the OCR reader's readtext
Readings ==
    { <<>>,
      <<Seg(<<"A", "B", "C", "1", "D", "2", "3">>, R(9, 10))>>,
      <<Seg(<<"A", "B", "C", "1", "D", "2", "3">>, R(4, 10))>>,
      <<Seg(<<"X", "Y", "Z", "9", "K", "8", "8">>, R(4, 10))>>,
      <<Seg(<<"B", "R", "A", "S", "I", "L">>, R(95, 100))>>,
      <<Seg(<<"A", "B", "C", "1", "2">>, R(9, 10))>>,
      <<Seg(<<"a", "b", "-", "1", "2", "c", "d", "e">>, R(7, 10))>>,
      <<Seg(<<"A", "B", "C">>, R(8, 10)), Seg(<<"1", "D", "2", "3">>, R(85, 100))>>,
      <<Seg(<<"A", "B", "C", "I", "2", "3", "4">>, R(6, 10)), Seg(<<"B", "R">>, R(2, 10))>> }

\* a score that weighs the detection like the OCR
calculate_confidence_even(detection_conf, ocr_conf, validation_conf) ==
    RAdd(RAdd(RMul(detection_conf, R(4, 10)), RMul(ocr_conf, R(4, 10))),
         RMul(validation_conf, R(3, 10)))

calculate_confidence(detection_conf, ocr_conf, validation_conf) ==
    RAdd(RAdd(RMul(detection_conf, R(3, 10)), RMul(ocr_conf, R(4, 10))),
         RMul(validation_conf, R(3, 10)))

\* a flag that compares with auto_accept_threshold instead
should_flag_below_auto_accept(detection_conf, ocr_conf, validation_conf) ==
    RLt(calculate_confidence(detection_conf, ocr_conf, validation_conf),
        auto_accept_threshold)

should_flag_for_review(detection_conf, ocr_conf, validation_conf) ==
    RLt(calculate_confidence(detection_conf, ocr_conf, validation_conf),
        needs_review_threshold)

\* a plate test that accepts widths up to 800
is_plate_crop_wide(img) ==
    IF img.h = 0 THEN FALSE
    ELSE img.w <= 800 /\ img.h < 300 /\ 3 * img.h <= 2 * img.w /\ img.w <= 7 * img.h

is_plate_crop(img) ==
    LET is_small == img.w < 800 /\ img.h < 300
        \* 1.5 <= w / h <= 7.0
        is_plate_aspect == 3 * img.h <= 2 * img.w /\ img.w <= 7 * img.h
    IN  IF img.h = 0 THEN FALSE ELSE is_small /\ is_plate_aspect

\* a plate_number that drops the text of every invalid validation
plate_number_if_valid(v) ==
    IF v.is_valid THEN v.text ELSE None

\* validation.text if validation.is_valid or validation.confidence > 0.3 else None
plate_number_of(v) ==
    IF v.is_valid \/ RGt(v.confidence, R(3, 10)) THEN v.text ELSE None

RecognitionResult(plate, score, det_conf, ocr_conf, box, region, review, metadata) ==
    [plate_number |-> plate, confidence_score |-> score,
     detection_confidence |-> det_conf, ocr_confidence |-> ocr_conf,
     bounding_box |-> box, plate_region |-> region,
     needs_review |-> review, processing_metadata |-> metadata]

\* None where a RecognitionResult is expected
NoResult ==
    RecognitionResult(None, <<-1, 1>>, Zero, Zero, NoBox, NoneStr, FALSE,
                      [attempts |-> 0, stages_applied |-> <<>>])

\* the RecognitionResult built at lines 229-238
initial_result(v, ocr, det_conf, box, metadata) ==
    RecognitionResult(plate_number_of(v),
                      calculate_confidence(det_conf, ocr.confidence, v.confidence),
                      det_conf, ocr.confidence, box, v.region,
                      should_flag_for_review(det_conf, ocr.confidence, v.confidence),
                      metadata)

\* a retry result that carries no plate_number
retry_result_unread(v, ocr, det_conf, metadata) ==
    RecognitionResult(None,
                      calculate_confidence(det_conf, ocr.confidence, v.confidence),
                      det_conf, ocr.confidence, NoBox, v.region,
                      should_flag_for_review(det_conf, ocr.confidence, v.confidence),
                      metadata)

\* the RecognitionResult built at lines 362-373; metadata.copy() is shallow:
\* attempts is captured, stages_applied stays the caller's list
retry_result(v, ocr, det_conf, metadata) ==
    RecognitionResult(plate_number_of(v),
                      calculate_confidence(det_conf, ocr.confidence, v.confidence),
                      det_conf, ocr.confidence, NoBox, v.region,
                      should_flag_for_review(det_conf, ocr.confidence, v.confidence),
                      metadata)

\* YOLOPlateDetector.__init__ stores its arguments and loads nothing: the
\* model is loaded by the first detect_all
yolo_init_raises == FALSE

\* the detector property: the detector after the lazy initialisation
detector_property(d) ==
    IF ~d.initialized
    THEN [obj |-> IF config.use_plate_detection
                  THEN (IF yolo_init_raises THEN "FallbackDetector"
                        ELSE "YOLOPlateDetector")
                  ELSE "FallbackDetector",
          initialized |-> TRUE]
    ELSE d

NoValidationYet == ValidationResult(<<>>, <<>>, Zero, NoneStr, NoneStr, <<>>, FALSE)

NoRetry ==
    [index |-> 0, best_result |-> NoResult, best_confidence |-> Zero, exit |-> FALSE]

\* an attempt as the history keeps it
Attempt(overall, ocr, v) == [overall |-> overall, ocr_confidence |-> ocr.confidence, validation |-> v]

\* the history's best attempt so far: the earliest of the highest overall
Top(top, attempt) == IF RGt(attempt.overall, top.overall) THEN attempt ELSE top

NoHist ==
    [detect_calls |-> 0, ocr_calls |-> 0, tried |-> <<>>, raised |-> 0,
     detection |-> NoDetection, from |-> "none",
     built_validation |-> NoValidationYet, best_validation |-> NoValidationYet,
     top |-> Attempt(<<-1, 1>>, EmptyOCRResult, NoValidationYet), any_valid |-> FALSE]

(***************************************************************************)
(* The job row, the task queue and the worker (models/recognition.py,      *)
(* worker/tasks.py, worker/celery_app.py, api/routes.py): data.            *)
(***************************************************************************)
max_retries == 3
worker_concurrency == 2

\* bounds of the model
MaxReprocess == 1

Slots == 1..worker_concurrency
MaxTasks == 1 + MaxReprocess

\* None where a float is expected
NoneFloat == <<0, 0>>

\* a RecognitionRequest row with the column defaults (the columns the
\* handlers write; id, image_url and the timestamps are never rewritten)
RecognitionRequest(status) ==
    [status |-> status, plate_number |-> None, error_message |-> NoneStr,
     confidence_score |-> NoneFloat, detection_confidence |-> NoneFloat,
     ocr_confidence |-> NoneFloat, needs_review |-> FALSE,
     bounding_box |-> NoBox, plate_region |-> NoneStr]

\* scalar_one_or_none() found no row
NoRow == RecognitionRequest("NoRow")

Idle ==
    [pc |-> "idle", task_id |-> 0, retries |-> 0, commits |-> 0, loaded |-> NoRow]

NoEvent ==
    [op |-> "none", task_id |-> 0, retries |-> 0, http |-> 0, commits |-> 0,
     exc |-> NoneStr, result |-> NoResult, before |-> NoRow, queue_before |-> <<>>]

\* bounds of the model
MaxThreads == 2

Threads == 1..MaxThreads

\* the lazily initialised handles: RecognitionService._detector,
\* YOLOPlateDetector._model, EasyOCREngine._reader, _recognition_service
Handles == {"detector", "model", "reader", "service"}

\* no function call in progress
FnIdle ==
    /\ fn_pc = "idle"
    /\ fn_call = [fn |-> "none"]
    /\ fn_return = <<>>

\* no handle constructed, no thread inside an accessor
LazyIdle ==
    /\ handles = [h \in Handles |-> [value |-> 0, initialized |-> FALSE]]
    /\ threads = [t \in Threads |-> [pc |-> "idle", handle |-> "none", instance |-> 0]]
    /\ constructed = [h \in Handles |-> 0]
    /\ observed = [h \in Handles |-> {}]

\* the state of the job side before anything is submitted
JobIdle ==
    /\ row = NoRow
    /\ queue = <<>>
    /\ worker = [s \in Slots |-> Idle]
    /\ runs = [t \in 1..MaxTasks |-> 0]
    /\ next_task = 1
    /\ event = NoEvent

\* the state of the orchestrator between two calls
RecIdle ==
    /\ detector = [obj |-> "None", initialized |-> FALSE]
    /\ pc = "idle"
    /\ image = [w |-> 0, h |-> 0]
    /\ detection_confidence = Zero
    /\ bounding_box = NoBox
    /\ plate_image = Region(0, 0, 0, 0)
    /\ processing_metadata = [attempts |-> 0, stages_applied |-> <<>>]
    /\ ocr_result = EmptyOCRResult
    /\ validation = NoValidationYet
    /\ overall_confidence = Zero
    /\ retry = NoRetry
    /\ result = NoResult
    /\ hist = NoHist

RecInit ==
    /\ config \in [use_plate_detection : BOOLEAN,
                   enable_enhanced_retry : BOOLEAN,
                   max_processing_attempts : 0..MaxAttempts]
    /\ yolo_loadable \in BOOLEAN
    /\ (~config.use_plate_detection => yolo_loadable)
    /\ RecIdle
    /\ JobIdle
    /\ LazyIdle
    /\ FnIdle

\* process_image_array is entered (lines 165-174; the quality scalars it
\* records in the metadata are read by nothing else and are left out)
StartCall ==
    /\ pc \in {"idle", "done", "raised"}
    /\ \E img \in Images : image' = img
    /\ pc' = "detect"
    /\ processing_metadata' = [attempts |-> 0, stages_applied |-> <<>>]
    /\ detection_confidence' = Zero
    /\ bounding_box' = NoBox
    /\ plate_image' = Region(0, 0, 0, 0)
    /\ ocr_result' = EmptyOCRResult
    /\ validation' = NoValidationYet
    /\ overall_confidence' = Zero
    /\ retry' = NoRetry
    /\ result' = NoResult
    /\ hist' = NoHist
    /\ UNCHANGED <<fnVars, lazyVars, jobVars, svcVars>>

\* Stage 2, the pre-cropped branch (lines 177-183)
DetectSkip ==
    /\ pc = "detect"
    /\ is_plate_crop(image)
    /\ detection_confidence' = R(8, 10)
    /\ bounding_box' = NoBox
    /\ plate_image' = WholeImage(image)
    /\ processing_metadata' =
          [processing_metadata EXCEPT
              !.stages_applied = Append(@, "pre_cropped_plate")]
    /\ pc' = "ocr"
    /\ UNCHANGED <<fnVars, lazyVars, jobVars, svcVars, image, ocr_result, validation, overall_confidence,
                   retry, result, hist>>

\* what self.detector.detect(image) returns
detect(d, img, boxes, predict_raises) ==
    IF d.obj = "YOLOPlateDetector"
    THEN yolo_detect(boxes, ~yolo_loadable \/ predict_raises)
    ELSE fallback_detect(img)

\* lines 186-198 for what detect returned
UseDetection(det) ==
    /\ IF det # NoDetection
       THEN /\ detection_confidence' = det.confidence
            /\ bounding_box' = det.bounding_box
            /\ plate_image' = crop_plate(image, det, detection_padding)
            /\ processing_metadata' =
                  [processing_metadata EXCEPT
                      !.stages_applied = Append(@, "detection")]
       ELSE /\ detection_confidence' = R(5, 10)
            /\ bounding_box' = NoBox
            /\ plate_image' = WholeImage(image)
            /\ processing_metadata' =
                  [processing_metadata EXCEPT
                      !.stages_applied = Append(@, "fallback_full_image")]
    /\ hist' = [hist EXCEPT !.detect_calls = @ + 1, !.detection = det]

\* the boxes the model reports lie inside the image
BoxesFit(boxes, img) ==
    \A i \in 1..Len(boxes) :
        /\ 0 <= boxes[i].xyxy[1] /\ boxes[i].xyxy[3] <= img.w
        /\ 0 <= boxes[i].xyxy[2] /\ boxes[i].xyxy[4] <= img.h

\* Stage 2, the detector branch (lines 184-198)
DetectStage ==
    /\ pc = "detect"
    /\ ~is_plate_crop(image)
    /\ detector' = detector_property(detector)
    /\ \E boxes \in Inferences, predict_raises \in BOOLEAN :
          /\ (detector'.obj = "YOLOPlateDetector" /\ yolo_loadable)
                \/ (boxes = <<>> /\ ~predict_raises)
          /\ (predict_raises => boxes = <<>>)
          /\ BoxesFit(boxes, image)
          /\ UseDetection(detect(detector', image, boxes, predict_raises))
    /\ pc' = "ocr"
    /\ UNCHANGED <<fnVars, lazyVars, jobVars, config, yolo_loadable, image, ocr_result, validation,
                   overall_confidence, retry, result>>

\* lines 212-238 once the initial attempt is scored
AfterInitial(ocr, v, overall, metadata) ==
    /\ ocr_result' = ocr
    /\ processing_metadata' = metadata
    /\ validation' = v
    /\ overall_confidence' = overall
    /\ IF /\ config.enable_enhanced_retry
          /\ RLt(overall, needs_review_threshold)
          /\ metadata.attempts < config.max_processing_attempts
       THEN /\ pc' = "retry"
            /\ retry' = [NoRetry EXCEPT !.index = 1]
            /\ result' = result
            /\ hist' = [hist EXCEPT !.ocr_calls = @ + 1,
                                    !.top = Attempt(overall, ocr, v),
                                    !.any_valid = v.is_valid]
       ELSE /\ pc' = "done"
            /\ retry' = retry
            /\ result' = initial_result(v, ocr, detection_confidence,
                                        bounding_box, metadata)
            /\ hist' = [hist EXCEPT !.ocr_calls = @ + 1,
                                    !.from = "initial",
                                    !.built_validation = v,
                                    !.top = Attempt(overall, ocr, v),
                                    !.any_valid = v.is_valid]

\* Stages 3 to 6 and, when no retry is made, the return (lines 200-238)
InitialOcr ==
    /\ pc = "ocr"
    /\ \E reading \in Readings, reader_raises \in BOOLEAN :
          /\ (reader_raises => reading = <<>>)
          /\ \E ocr \in {extract_text(reading, reader_raises)} :
             \E v \in {validate_ocr_result(ocr)} :
                AfterInitial(ocr, v,
                             calculate_confidence(detection_confidence,
                                                  ocr.confidence, v.confidence),
                             [processing_metadata EXCEPT !.attempts = @ + 1])
    /\ UNCHANGED <<fnVars, lazyVars, jobVars, svcVars, image, detection_confidence, bounding_box, plate_image>>

\* the OCR engine's extract_text raises at line 201: nothing here catches it
InitialOcrRaises ==
    /\ pc = "ocr"
    /\ pc' = "raised"
    /\ hist' = [hist EXCEPT !.ocr_calls = @ + 1]
    /\ UNCHANGED <<fnVars, lazyVars, jobVars, svcVars, image, detection_confidence, bounding_box, plate_image,
                   processing_metadata, ocr_result, validation, overall_confidence,
                   retry, result>>

\* a loop guard without the attempts budget
InRetryLoopUnbudgeted ==
    /\ pc = "retry"
    /\ ~retry.exit
    /\ retry.index <= 4

\* the loop has a configuration left and does not break (lines 346-348, 376-378)
InRetryLoop ==
    /\ pc = "retry"
    /\ ~retry.exit
    /\ retry.index <= 4
    /\ processing_metadata.attempts < config.max_processing_attempts

\* one iteration of the loop whose process_with_config or extract_text
\* raises (lines 351-352, 380-382)
RetryRaisesEarly ==
    /\ InRetryLoop
    /\ \E in_ocr \in BOOLEAN :
          hist' = [hist EXCEPT !.tried = Append(@, retry.index),
                               !.raised = @ + 1,
                               !.ocr_calls = @ + (IF in_ocr THEN 1 ELSE 0)]
    /\ retry' = [retry EXCEPT !.index = @ + 1]
    /\ UNCHANGED <<fnVars, lazyVars, jobVars, svcVars, pc, image, detection_confidence, bounding_box,
                   plate_image, processing_metadata, ocr_result, validation,
                   overall_confidence, result>>

\* one iteration of the loop whose _validate_ocr_result raises (line 355)
RetryRaisesLate ==
    /\ InRetryLoop
    /\ processing_metadata' = [processing_metadata EXCEPT !.attempts = @ + 1]
    /\ hist' = [hist EXCEPT !.tried = Append(@, retry.index),
                            !.raised = @ + 1,
                            !.ocr_calls = @ + 1]
    /\ retry' = [retry EXCEPT !.index = @ + 1]
    /\ UNCHANGED <<fnVars, lazyVars, jobVars, svcVars, pc, image, detection_confidence, bounding_box,
                   plate_image, ocr_result, validation, overall_confidence, result>>

\* an attempt after which the loop never breaks
AfterAttemptNoBreak(ocr, v, overall, metadata, better, early_exit) ==
    /\ retry' =
          [index |-> retry.index + 1,
           best_result |->
               IF better
               THEN retry_result(v, ocr, detection_confidence, metadata)
               ELSE retry.best_result,
           best_confidence |-> IF better THEN overall ELSE retry.best_confidence,
           exit |-> FALSE]
    /\ processing_metadata' = metadata
    /\ hist' = [hist EXCEPT
                  !.tried = Append(@, retry.index),
                  !.ocr_calls = @ + 1,
                  !.best_validation = IF better THEN v ELSE @,
                  !.top = Top(@, Attempt(overall, ocr, v)),
                  !.any_valid = @ \/ v.is_valid]

\* lines 360-378 once the attempt is scored; better: overall > best_confidence
AfterAttempt(ocr, v, overall, metadata, better, early_exit) ==
    /\ retry' =
          [index |-> IF early_exit THEN retry.index ELSE retry.index + 1,
           best_result |->
               IF better
               THEN retry_result(v, ocr, detection_confidence, metadata)
               ELSE retry.best_result,
           best_confidence |-> IF better THEN overall ELSE retry.best_confidence,
           exit |-> early_exit]
    /\ processing_metadata' =
          IF early_exit
          THEN [metadata EXCEPT !.stages_applied = Append(@, "preprocessing")]
          ELSE metadata
    /\ hist' = [hist EXCEPT
                  !.tried = Append(@, retry.index),
                  !.ocr_calls = @ + 1,
                  !.best_validation = IF better THEN v ELSE @,
                  !.top = Top(@, Attempt(overall, ocr, v)),
                  !.any_valid = @ \/ v.is_valid]

\* one iteration of the loop that raises nothing (lines 346-378)
RetryAttempt ==
    /\ InRetryLoop
    /\ \E reading \in Readings, reader_raises \in BOOLEAN :
          /\ (reader_raises => reading = <<>>)
          /\ \E ocr \in {extract_text(reading, reader_raises)} :
             \E v \in {validate_ocr_result(ocr)} :
             \E overall \in {calculate_confidence(detection_confidence,
                                                  ocr.confidence, v.confidence)} :
                AfterAttempt(ocr, v, overall,
                             [processing_metadata EXCEPT !.attempts = @ + 1],
                             RGt(overall, retry.best_confidence),
                             RGe(RMax(overall, retry.best_confidence),
                                 auto_accept_threshold))
    /\ UNCHANGED <<fnVars, lazyVars, jobVars, svcVars, pc, image, detection_confidence, bounding_box,
                   plate_image, ocr_result, validation, overall_confidence, result>>

\* a return that takes the retry result when it ties with the initial one
ReturnAfterRetryOnTie(enhanced_result) ==
    IF /\ enhanced_result # NoResult
       /\ RGe(enhanced_result.confidence_score, overall_confidence)
    THEN /\ result' = enhanced_result
         /\ hist' = [hist EXCEPT !.from = "retry",
                                 !.built_validation = hist.best_validation]
    ELSE /\ result' = initial_result(validation, ocr_result,
                                     detection_confidence, bounding_box,
                                     processing_metadata)
         /\ hist' = [hist EXCEPT !.from = "initial",
                                 !.built_validation = validation]

\* lines 221-238 for what _retry_with_preprocessing returned
ReturnAfterRetry(enhanced_result) ==
    IF /\ enhanced_result # NoResult
       /\ RGt(enhanced_result.confidence_score, overall_confidence)
    THEN /\ result' = enhanced_result
         /\ hist' = [hist EXCEPT !.from = "retry",
                                 !.built_validation = hist.best_validation]
    ELSE /\ result' = initial_result(validation, ocr_result,
                                     detection_confidence, bounding_box,
                                     processing_metadata)
         /\ hist' = [hist EXCEPT !.from = "initial",
                                 !.built_validation = validation]

\* the loop ends (lines 347-348, 378, 384) and process_image_array returns
\* (lines 221-238); the result built in the loop shares stages_applied
RetryReturn ==
    /\ pc = "retry"
    /\ ~InRetryLoop
    /\ ReturnAfterRetry(
          IF retry.best_result = NoResult THEN NoResult
          ELSE [retry.best_result EXCEPT
                  !.processing_metadata.stages_applied =
                      processing_metadata.stages_applied])
    /\ pc' = "done"
    /\ UNCHANGED <<fnVars, lazyVars, jobVars, svcVars, image, detection_confidence, bounding_box, plate_image,
                   processing_metadata, ocr_result, validation, overall_confidence,
                   retry>>

RecNext ==
    \/ StartCall
    \/ DetectSkip
    \/ DetectStage
    \/ InitialOcr
    \/ InitialOcrRaises
    \/ RetryRaisesEarly
    \/ RetryRaisesLate
    \/ RetryAttempt
    \/ RetryReturn

Spec == RecInit /\ [][RecNext]_vars

(***************************************************************************)
(* Properties of the orchestrator, under Spec.                             *)
(***************************************************************************)
\* C1: every result process_image_array returns, from the initial attempt
\* or from a retry attempt, has needs_review true exactly when its
\* confidence_score is below needs_review_threshold
C1_NeedsReviewIffBelowThreshold ==
    pc = "done" =>
        (result.needs_review <=>
            RLt(result.confidence_score, needs_review_threshold))

\* a flagged result from a retry attempt and its score below the threshold
C1_Witness ==
    /\ pc = "done"
    /\ hist.from = "retry"
    /\ result.needs_review
    /\ RLt(result.confidence_score, needs_review_threshold)
    /\ RGt(result.confidence_score, R(1, 2))

\* C2 as stated: for every configuration the returned result has
\* 1 <= processing_metadata.attempts <= max_processing_attempts
C2_AttemptsWithinBudget ==
    pc = "done" =>
        /\ 1 <= result.processing_metadata.attempts
        /\ result.processing_metadata.attempts <= config.max_processing_attempts

\* C2 for configurations with max_processing_attempts >= 1: the returned
\* result has 1 <= processing_metadata.attempts <= max_processing_attempts
C2_AttemptsWithinPositiveBudget ==
    (pc = "done" /\ config.max_processing_attempts >= 1) =>
        /\ 1 <= result.processing_metadata.attempts
        /\ result.processing_metadata.attempts <= config.max_processing_attempts

\* a result from the retry path that used the whole budget of three
C2_Witness ==
    /\ pc = "done"
    /\ config.max_processing_attempts = 3
    /\ Len(hist.tried) = 2
    /\ result.processing_metadata.attempts = 3

\* C3: the returned plate_number is null when the validation the result was
\* built from has is_valid = false and confidence <= 0.3, and is that
\* validation's text otherwise, on the initial and on the retry path
C3_PlateNumberFromValidation ==
    pc = "done" =>
        result.plate_number =
            IF ~hist.built_validation.is_valid
               /\ RLe(hist.built_validation.confidence, R(3, 10))
            THEN None
            ELSE hist.built_validation.text

\* a retry result carrying the text of an invalid validation above 0.3
C3_Witness ==
    /\ pc = "done"
    /\ hist.from = "retry"
    /\ ~hist.built_validation.is_valid
    /\ RGt(hist.built_validation.confidence, R(3, 10))
    /\ result.plate_number = hist.built_validation.text
    /\ result.plate_number # None

\* C8: when use_plate_detection is set and the model cannot be loaded, a
\* non-plate-like image is processed with the FallbackDetector: the crop is
\* its centred box, detection_confidence is 0.5 and the box is reported
C8_FallbackOnLoadFailure ==
    (/\ pc \in {"ocr", "retry", "done"}
     /\ config.use_plate_detection
     /\ ~yolo_loadable
     /\ ~is_plate_crop(image)) =>
        /\ detector.obj = "FallbackDetector"
        /\ detection_confidence = R(5, 10)
        /\ bounding_box = fallback_detect(image).bounding_box
        /\ plate_image =
              Region(image.w \div 10, image.h \div 10,
                     image.w - (image.w \div 10), image.h - (image.h \div 10))

\* C9: when the detector found a plate and the returned result comes from a
\* retry attempt, its bounding_box is the box of the detection
C9_RetryKeepsBoundingBox ==
    (/\ pc = "done"
     /\ hist.from = "retry"
     /\ hist.detection # NoDetection) =>
        result.bounding_box = hist.detection.bounding_box

\* C10: once a retry attempt has raised, the call has not raised, every
\* configuration tried is counted in attempts, and the configurations tried
\* are at most max_processing_attempts - 1
C10_RaisingAttemptCounted ==
    (pc \in {"retry", "done", "raised"} /\ hist.raised > 0) =>
        /\ pc # "raised"
        /\ processing_metadata.attempts = 1 + Len(hist.tried)
        /\ Len(hist.tried) <= config.max_processing_attempts - 1

\* the image is small and has the aspect ratio of a plate
PlateLike(img) ==
    /\ img.w < 800
    /\ img.h < 300
    /\ 3 * img.h <= 2 * img.w
    /\ img.w <= 7 * img.h

\* C12: a small plate-like image never reaches the detector and its result
\* has detection_confidence 0.8, no bounding_box and the stage
\* "pre_cropped_plate"; any other image reaches the detector exactly once,
\* retries included, and a miss gives detection_confidence 0.5 and no box
C12_PreCropSkipsDetector ==
    /\ (pc \in {"ocr", "retry", "done", "raised"} /\ PlateLike(image)) =>
          hist.detect_calls = 0
    /\ (pc = "done" /\ PlateLike(image)) =>
          /\ result.detection_confidence = R(8, 10)
          /\ result.bounding_box = NoBox
          /\ \E i \in 1..Len(result.processing_metadata.stages_applied) :
                result.processing_metadata.stages_applied[i] = "pre_cropped_plate"
    /\ (pc \in {"ocr", "retry", "done", "raised"} /\ ~PlateLike(image)) =>
          hist.detect_calls = 1
    /\ (pc = "done" /\ ~PlateLike(image) /\ hist.detection = NoDetection) =>
          /\ result.detection_confidence = R(5, 10)
          /\ result.bounding_box = NoBox

\* a retry result for an image at the edge of the aspect range: no detector
\* call, two retry attempts made
C12_Witness ==
    /\ pc = "done"
    /\ image = [w |-> 300, h |-> 200]
    /\ hist.from = "retry"
    /\ Len(hist.tried) = 2
    /\ hist.detect_calls = 0
    /\ result.detection_confidence = R(8, 10)

\* q lies in [0, 1]
InUnit(q) == RLe(Zero, q) /\ RLe(q, One)

\* C21: the three confidences of a returned result lie in [0, 1], the
\* confidence_score is 0.3 detection + 0.4 OCR + 0.3 validation of the
\* attempt the result reports, and no candidate validates with more than
\* its OCR confidence
C21_ConfidencesInUnitAndWeighted ==
    pc = "done" =>
        /\ InUnit(result.confidence_score)
        /\ InUnit(result.detection_confidence)
        /\ InUnit(result.ocr_confidence)
        /\ result.confidence_score =
              RAdd(RAdd(RMul(R(3, 10), result.detection_confidence),
                        RMul(R(4, 10), result.ocr_confidence)),
                   RMul(R(3, 10), hist.built_validation.confidence))
        /\ RLe(hist.built_validation.confidence, result.ocr_confidence)
        /\ hist.from = "initial" =>
              \A i \in DOMAIN assemble_candidates(ocr_result) :
                  RLe(validate(assemble_candidates(ocr_result)[i][1],
                               assemble_candidates(ocr_result)[i][2],
                               default_region).confidence,
                      assemble_candidates(ocr_result)[i][2])

\* a result of a retry attempt on a detected plate, scored above the
\* initial attempt
C21_Witness ==
    /\ pc = "done"
    /\ hist.from = "retry"
    /\ hist.detection # NoDetection
    /\ result.detection_confidence = R(9, 10)
    /\ result.ocr_confidence = R(9, 10)
    /\ result.confidence_score = R(9, 10)

\* C24: the returned confidence_score is the highest overall of the initial
\* attempt and the retry attempts that completed, and plate_number,
\* ocr_confidence, plate_region and needs_review are those of the earliest
\* attempt with that overall
C24_BestAttemptReturned ==
    pc = "done" =>
        /\ result.confidence_score = hist.top.overall
        /\ result.ocr_confidence = hist.top.ocr_confidence
        /\ result.plate_region = hist.top.validation.region
        /\ result.plate_number =
              (IF \/ hist.top.validation.is_valid
                  \/ RGt(hist.top.validation.confidence, R(3, 10))
               THEN hist.top.validation.text
               ELSE None)
        /\ result.needs_review = RLt(hist.top.overall, needs_review_threshold)

\* the initial attempt and a retry attempt read different plates with the
\* same overall, a later attempt scored lower, and the first plate is returned
C24_Witness ==
    /\ pc = "done"
    /\ hist.from = "initial"
    /\ Len(hist.tried) >= 2
    /\ retry.best_confidence = overall_confidence
    /\ retry.best_result.plate_number # result.plate_number
    /\ result.plate_number = <<"A", "B", "C", "1", "D", "2", "3">>

\* C25: if an attempt on the image, initial or retry, validated with
\* is_valid = true, the returned result has a plate_number
C25_ValidReadingKept ==
    (pc = "done" /\ hist.any_valid) => result.plate_number # None

\* C25 amended: if the attempt with the highest overall validated with
\* is_valid = true, the returned result has that attempt's text as
\* plate_number; a valid reading of an attempt with a lower overall is
\* given up for the reading, null or not, of the attempt with the highest
C25_ValidReadingOfBestKept ==
    pc = "done" =>
        /\ hist.top.validation.is_valid =>
              /\ result.plate_number # None
              /\ result.plate_number = hist.top.validation.text
        /\ (hist.any_valid /\ result.plate_number = None) =>
              /\ ~hist.top.validation.is_valid
              /\ RLe(hist.top.validation.confidence, R(3, 10))
              /\ result.confidence_score = hist.top.overall

\* the initial attempt read a valid plate and a retry attempt a valid
\* plate of a higher overall, which is returned
C25_Witness ==
    /\ pc = "done"
    /\ validation.is_valid
    /\ hist.from = "retry"
    /\ hist.top.validation.is_valid
    /\ hist.top.validation.text # validation.text
    /\ result.plate_number = hist.top.validation.text

\* the crop stage 2 hands to the OCR stages
OriginalCrop ==
    IF PlateLike(image) \/ hist.detection = NoDetection
    THEN WholeImage(image)
    ELSE crop_plate(image, hist.detection, detection_padding)

\* the initial attempt is the only one the configuration and its score allow
SingleAttempt ==
    \/ ~config.enable_enhanced_retry
    \/ RGe(overall_confidence, needs_review_threshold)
    \/ config.max_processing_attempts <= 1

\* the retry loop tries a preprocessing configuration in this step
TriesConfig == pc = "retry" /\ Len(hist'.tried) = Len(hist.tried) + 1

\* C26: the OCR engine is invoked exactly once for an image when retry is
\* disabled, the initial overall is at least needs_review_threshold or
\* max_processing_attempts <= 1; otherwise the configurations are tried in
\* the order 1, 2, 3, 4, each at most once on the original crop, and none is
\* tried once attempts >= max_processing_attempts or after an attempt whose
\* overall is at least auto_accept_threshold
C26_RetrySchedule ==
    /\ [](/\ (pc = "done" /\ SingleAttempt) =>
               (hist.ocr_calls = 1 /\ hist.tried = <<>>)
          /\ (pc = "done" /\ ~SingleAttempt) =>
               /\ Len(hist.tried) >= 1
               /\ \/ Len(hist.tried) = 4
                  \/ processing_metadata.attempts >= config.max_processing_attempts
                  \/ RGe(hist.top.overall, auto_accept_threshold)
          /\ Len(hist.tried) <= 4
          /\ \A i \in 1..Len(hist.tried) : hist.tried[i] = i
          /\ hist.ocr_calls <= 1 + Len(hist.tried)
          /\ pc \in {"ocr", "retry", "done"} => plate_image = OriginalCrop)
    /\ [][TriesConfig =>
             /\ processing_metadata.attempts < config.max_processing_attempts
             /\ RLt(hist.top.overall, auto_accept_threshold)
             /\ hist'.tried = Append(hist.tried, Len(hist.tried) + 1)
             /\ plate_image' = plate_image]_vars

\* the second configuration reaches auto_accept_threshold with budget and
\* configurations left, and the result is returned without a third
C26_Witness ==
    /\ pc = "done"
    /\ ~SingleAttempt
    /\ hist.tried = <<1, 2>>
    /\ hist.ocr_calls = 3
    /\ config.max_processing_attempts > 3
    /\ RGe(hist.top.overall, auto_accept_threshold)
    /\ plate_image = OriginalCrop

\* C28: processing_metadata.attempts of the returned result is the number
\* of extract_text invocations made for the image, also when the result
\* comes from a retry attempt that further, not better, attempts followed
C28_AttemptsCountOcrCalls ==
    pc = "done" => result.processing_metadata.attempts = hist.ocr_calls

\* C30: with OCR confidences of at most 1, a plate_number that
\* process_image_array returns is a non-empty string over A-Z and 0-9 of
\* 6 to 8 characters: no text rejected for its length, no blacklisted
\* word, no fallback candidate and no empty text is returned
C30_PlateNumberWellFormed ==
    (pc = "done" /\ result.plate_number # None) =>
        /\ result.plate_number # <<>>
        /\ min_length <= Len(result.plate_number)
        /\ Len(result.plate_number) <= max_length
        /\ \A i \in DOMAIN result.plate_number :
              result.plate_number[i] \in Letters \cup Digits
        /\ result.plate_number \notin BLACKLIST
        /\ hist.built_validation.text = result.plate_number
        /\ \/ hist.built_validation.is_valid
           \/ /\ hist.built_validation.format_name = NoneStr
              /\ looks_like_plate(result.plate_number)
              /\ RGt(result.ocr_confidence, R(6, 10))

\* a reading in lower case with a hyphen that matches no format is
\* returned normalized, by the initial attempt
C30_Witness ==
    /\ pc = "done"
    /\ hist.from = "initial"
    /\ ocr_result.text = <<"a", "b", "-", "1", "2", "c", "d", "e">>
    /\ result.plate_number = <<"A", "B", "1", "2", "C", "D", "E">>
    /\ ~hist.built_validation.is_valid

(***************************************************************************)
(* The job runner, the endpoints and the queue: one job.  A handler's      *)
(* database transaction is one step; the task is split where it calls the  *)
(* recognition service, which runs for seconds.  The database and the      *)
(* broker are taken to be available.                                       *)
(***************************************************************************)
\* RecognitionConfig as _create_recognition_service builds it from the
\* default settings
DefaultConfig ==
    [use_plate_detection |-> TRUE, enable_enhanced_retry |-> TRUE,
     max_processing_attempts |-> 3]

\* str(e) of what the task's try block raises after the PENDING commit
Exceptions == {"Image not found", "OCR engine failed"}

\* readings behind the results process_image returns to the task
JobReadings ==
    { <<>>,
      <<Seg(<<"A", "B", "C", "1", "D", "2", "3">>, R(9, 10))>>,
      <<Seg(<<"A", "B", "C", "1", "D", "2", "3">>, R(4, 10))>>,
      <<Seg(<<"B", "R", "A", "S", "I", "L">>, R(95, 100))>> }

\* what process_image returns for a detection of confidence 0.9
result_of(ocr) ==
    initial_result(validate_ocr_result(ocr), ocr, R(9, 10),
                   BoundingBox(400, 300, 160, 50),
                   [attempts |-> 1, stages_applied |-> <<"detection">>])

JobResults == { result_of(extract_text(reading, FALSE)) : reading \in JobReadings }

\* bool(plate_number) of an optional string
Truthy(plate_number) == plate_number # None /\ plate_number # <<>>

\* the attributes the task assigns from the result (tasks.py 94-111)
assign_result(r) ==
    [status |->
        IF Truthy(r.plate_number)
        THEN (IF r.needs_review THEN "NEEDS_REVIEW" ELSE "COMPLETED")
        ELSE "FAILED",
     plate_number |-> r.plate_number,
     error_message |->
        IF Truthy(r.plate_number) THEN NoneStr ELSE "No plate detected",
     confidence_score |-> r.confidence_score,
     detection_confidence |-> r.detection_confidence,
     ocr_confidence |-> r.ocr_confidence,
     needs_review |-> r.needs_review,
     bounding_box |-> r.bounding_box,
     plate_region |-> r.plate_region]

\* db.commit() of a session whose object was loaded as `loaded` and has the
\* attributes `assigned` set: the UPDATE carries the attributes whose value
\* differs from the loaded one, the other columns keep what the table holds
flush(db_row, loaded, assigned) ==
    [f \in DOMAIN db_row |->
        IF assigned[f] # loaded[f] THEN assigned[f] ELSE db_row[f]]

\* a reset that leaves plate_number as it is
reset_keeping_plate(r) ==
    [RecognitionRequest("NOT_STARTED") EXCEPT !.plate_number = r.plate_number]

\* the attributes reprocess assigns (routes.py 79-87)
reset(r) ==
    [status |-> "NOT_STARTED", plate_number |-> None, error_message |-> NoneStr,
     confidence_score |-> NoneFloat, detection_confidence |-> NoneFloat,
     ocr_confidence |-> NoneFloat, needs_review |-> FALSE,
     bounding_box |-> NoBox, plate_region |-> NoneStr]

\* a first commit that also clears error_message
mark_pending_clearing(r) ==
    [r EXCEPT !.status = "PENDING", !.error_message = NoneStr]

\* the row with the status the task sets first (tasks.py 76)
mark_pending(r) == [r EXCEPT !.status = "PENDING"]

\* a delay that doubles with each retry
countdown_doubling(retries) == 5 * (2 ^ retries)

\* the delay of the retry scheduled at retry count `retries` (tasks.py 150)
countdown(retries) == 5 * (retries + 1)

Message(task_id, retries, delay) ==
    [task_id |-> task_id, retries |-> retries, countdown |-> delay]

RemoveAt(q, i) == SubSeq(q, 1, i - 1) \o SubSeq(q, i + 1, Len(q))

Event(op, task_id, retries, http, commits, exc, res) ==
    [op |-> op, task_id |-> task_id, retries |-> retries, http |-> http,
     commits |-> commits, exc |-> exc, result |-> res, before |-> row,
     queue_before |-> queue]

JobInit ==
    /\ config = DefaultConfig
    /\ yolo_loadable = TRUE
    /\ RecIdle
    /\ JobIdle
    /\ LazyIdle
    /\ FnIdle

\* POST /api/v1/recognition (routes.py 22-54)
Submit ==
    /\ row = NoRow
    /\ \E content_type \in {"image/jpeg", "text/plain"} :
          IF content_type # "image/jpeg"
          THEN /\ event' = Event("submit", 0, 0, 400, 0, NoneStr, NoResult)
               /\ UNCHANGED <<row, queue, next_task>>
          ELSE /\ row' = RecognitionRequest("NOT_STARTED")
               /\ queue' = Append(queue, Message(next_task, 0, 0))
               /\ next_task' = next_task + 1
               /\ event' = Event("submit", next_task, 0, 200, 1, NoneStr, NoResult)
    /\ UNCHANGED <<fnVars, lazyVars, svcVars, callVars, worker, runs>>

\* POST /api/v1/recognition/{id}/reprocess (routes.py 57-98)
Reprocess ==
    /\ IF row = NoRow
       THEN /\ event' = Event("reprocess", 0, 0, 404, 0, NoneStr, NoResult)
            /\ UNCHANGED <<row, queue, next_task>>
       ELSE IF row.status \notin {"FAILED", "NEEDS_REVIEW"}
       THEN /\ event' = Event("reprocess", 0, 0, 400, 0, NoneStr, NoResult)
            /\ UNCHANGED <<row, queue, next_task>>
       ELSE /\ next_task <= MaxTasks
            /\ row' = flush(row, row, reset(row))
            /\ queue' = Append(queue, Message(next_task, 0, 0))
            /\ next_task' = next_task + 1
            /\ event' = Event("reprocess", next_task, 0, 200, 1, NoneStr, NoResult)
    /\ UNCHANGED <<fnVars, lazyVars, svcVars, callVars, worker, runs>>

\* a worker process takes a message and runs the task up to the call of the
\* recognition service (tasks.py 61-83): the row is selected, marked PENDING
\* and committed; the commit expires the object, which line 80 loads again
TaskStart(s, i) ==
    /\ worker[s].pc = "idle"
    /\ row' = flush(row, row, mark_pending(row))
    /\ queue' = RemoveAt(queue, i)
    /\ runs' = [runs EXCEPT ![queue[i].task_id] = @ + 1]
    /\ worker' = [worker EXCEPT ![s] =
                    [pc |-> "recognizing", task_id |-> queue[i].task_id,
                     retries |-> queue[i].retries, commits |-> 1, loaded |-> row']]
    /\ event' = Event("task_start", queue[i].task_id, queue[i].retries, 0, 1,
                      NoneStr, NoResult)
    /\ UNCHANGED <<fnVars, lazyVars, svcVars, callVars, next_task>>

\* process_image returns r; the task stores it and commits (tasks.py 90-132)
TaskSucceeds(s) ==
    /\ worker[s].pc = "recognizing"
    /\ \E r \in JobResults :
          /\ row' = flush(row, worker[s].loaded, assign_result(r))
          /\ event' = Event("task_succeeded", worker[s].task_id, worker[s].retries,
                            0, worker[s].commits + 1, NoneStr, r)
    /\ worker' = [worker EXCEPT ![s] = Idle]
    /\ UNCHANGED <<fnVars, lazyVars, svcVars, callVars, queue, runs, next_task>>

\* the image is missing or process_image raises; the except block rolls
\* back, which expires the object, stores FAILED and the exception text,
\* commits, and retries while retries < max_retries (tasks.py 85-90, 134-157)
TaskFails(s) ==
    /\ worker[s].pc = "recognizing"
    /\ \E exc \in Exceptions :
          /\ row' = [row EXCEPT !.status = "FAILED", !.error_message = exc]
          /\ event' = Event("task_failed", worker[s].task_id, worker[s].retries,
                            0, worker[s].commits + 1, exc, NoResult)
    /\ queue' = IF worker[s].retries < max_retries
                THEN Append(queue, Message(worker[s].task_id, worker[s].retries + 1,
                                           countdown(worker[s].retries)))
                ELSE queue
    /\ worker' = [worker EXCEPT ![s] = Idle]
    /\ UNCHANGED <<fnVars, lazyVars, svcVars, callVars, runs, next_task>>

\* the task runs into task_time_limit and its process is killed during
\* recognition (celery_app.py 21): no handler of the task runs
TimeLimit(s) ==
    /\ worker[s].pc = "recognizing"
    /\ worker' = [worker EXCEPT ![s] = Idle]
    /\ event' = Event("time_limit", worker[s].task_id, worker[s].retries, 0,
                      worker[s].commits, NoneStr, NoResult)
    /\ UNCHANGED <<fnVars, lazyVars, svcVars, callVars, row, queue, runs, next_task>>

JobNext ==
    \/ Submit
    \/ Reprocess
    \/ \E s \in Slots, i \in 1..Len(queue) : TaskStart(s, i)
    \/ \E s \in Slots : TaskSucceeds(s)
    \/ \E s \in Slots : TaskFails(s)
    \/ \E s \in Slots : TimeLimit(s)

SpecJob == JobInit /\ [][JobNext]_vars

(***************************************************************************)
(* Properties of the job runner and the endpoints, under SpecJob.          *)
(***************************************************************************)
\* C4 as stated: an execution commits exactly once, after recognition has
\* produced the result; nothing is committed before or during recognition
C4_CommitsOnceAfterResult ==
    /\ \A s \in Slots : worker[s].pc = "recognizing" => worker[s].commits = 0
    /\ event.op \in {"task_succeeded", "task_failed"} => event.commits = 1
    /\ event.op = "time_limit" => event.commits = 0

\* C4 for the two commits of an execution: the first, before recognition,
\* writes status = PENDING and nothing else; nothing is committed during
\* recognition; the second follows the end of recognition; an execution
\* killed during recognition has committed only the first and its end
\* leaves the row as it is
C4_PendingThenResultCommit ==
    /\ \A s \in Slots : worker[s].pc = "recognizing" => worker[s].commits = 1
    /\ event.op = "task_start" =>
          row = [event.before EXCEPT !.status = "PENDING"]
    /\ event.op \in {"task_succeeded", "task_failed"} => event.commits = 2
    /\ event.op = "time_limit" => (event.commits = 1 /\ row = event.before)

\* a retry execution killed during recognition: the row is PENDING and still
\* holds the message of the earlier failure
C4_Witness ==
    /\ event.op = "time_limit"
    /\ event.retries > 0
    /\ row.status = "PENDING"
    /\ row.error_message \in Exceptions

\* C5: after an execution whose recognition returned r, the row is
\* NEEDS_REVIEW when r has a plate and needs review, COMPLETED when it has a
\* plate and needs none, FAILED with "No plate detected" otherwise, and
\* error_message is null in the first two cases
C5_StatusFromResult ==
    event.op = "task_succeeded" =>
        IF Truthy(event.result.plate_number) /\ event.result.needs_review
        THEN row.status = "NEEDS_REVIEW" /\ row.error_message = NoneStr
        ELSE IF Truthy(event.result.plate_number)
        THEN row.status = "COMPLETED" /\ row.error_message = NoneStr
        ELSE row.status = "FAILED" /\ row.error_message = "No plate detected"

\* C6: reprocess of a NOT_STARTED, PENDING or COMPLETED job answers 400,
\* leaves the row as it is and enqueues nothing; of a FAILED or NEEDS_REVIEW
\* job it resets the row to NOT_STARTED with every result field cleared and
\* enqueues exactly one task
C6_ReprocessGuard ==
    (event.op = "reprocess" /\ event.before # NoRow) =>
        IF event.before.status \in {"NOT_STARTED", "PENDING", "COMPLETED"}
        THEN /\ event.http = 400
             /\ row = event.before
             /\ queue = event.queue_before
        ELSE /\ event.before.status \in {"FAILED", "NEEDS_REVIEW"}
             /\ event.http = 200
             /\ row = RecognitionRequest("NOT_STARTED")
             /\ queue = Append(event.queue_before, Message(event.task_id, 0, 0))

\* a NEEDS_REVIEW job with a plate is reprocessed: cleared and enqueued once
C6_Witness ==
    /\ event.op = "reprocess"
    /\ event.http = 200
    /\ event.before.status = "NEEDS_REVIEW"
    /\ Truthy(event.before.plate_number)
    /\ row.plate_number = None
    /\ Len(queue) = Len(event.queue_before) + 1

\* C7: a task is executed at most 4 times; a failure at retry count k < 3
\* schedules one retry delayed 5 * (k + 1) seconds; a failure at retry count
\* 3 leaves the row FAILED with the exception's text and schedules nothing
C7_RetriesBounded ==
    /\ \A t \in 1..MaxTasks : runs[t] <= 4
    /\ (event.op = "task_failed" /\ event.retries < 3) =>
          queue = Append(event.queue_before,
                         Message(event.task_id, event.retries + 1,
                                 5 * (event.retries + 1)))
    /\ (event.op = "task_failed" /\ event.retries >= 3) =>
          /\ row.status = "FAILED"
          /\ row.error_message = event.exc
          /\ queue = event.queue_before
          /\ \A i \in 1..Len(queue) : queue[i].task_id # event.task_id
          /\ \A s \in Slots : worker[s].task_id # event.task_id

\* the fourth execution of a task fails: FAILED with its text, no retry
C7_Witness ==
    /\ event.op = "task_failed"
    /\ event.retries = 3
    /\ runs[event.task_id] = 4
    /\ row.status = "FAILED"
    /\ row.error_message = event.exc

(***************************************************************************)
(* Lazy initialisation under threads that share the handles: the detector  *)
(* property (recognition.py 112-129), the model property                   *)
(* (yolo_detector.py 55-72), the reader property (easyocr_engine.py 33-42) *)
(* and get_recognition_service (recognition.py 425-430).  None of them     *)
(* takes a lock; a thread can be switched out between any two steps.       *)
(***************************************************************************)
\* C22: for the job at most one recognition task is scheduled or running
\* at any time, so no reprocess is accepted while a retry of an earlier
\* failed execution is pending
C22_AtMostOneTask ==
    Len(queue) + Cardinality({s \in Slots : worker[s].pc # "idle"}) <= 1

\* C23: a job that entered PENDING reaches COMPLETED, NEEDS_REVIEW or
\* FAILED, also when an execution is killed at the time limit or the
\* worker dies after the PENDING commit: the row is never PENDING with no
\* task scheduled or running, the state no worker and no reprocess
\* request moves it from
C23_PendingHasTask ==
    row.status = "PENDING" =>
        \/ queue # <<>>
        \/ \E s \in Slots : worker[s].pc # "idle"

\* C27: in every committed state of the job row plate_number is non-null
\* exactly when status is COMPLETED or NEEDS_REVIEW, COMPLETED implies
\* needs_review = false and no error_message, and NEEDS_REVIEW implies
\* needs_review = true
C27_RowConsistent ==
    row # NoRow =>
        /\ row.plate_number # None <=> row.status \in {"COMPLETED", "NEEDS_REVIEW"}
        /\ row.status = "COMPLETED" =>
              (~row.needs_review /\ row.error_message = NoneStr)
        /\ row.status = "NEEDS_REVIEW" => row.needs_review

\* the test an accessor makes first: _detector_initialized for the
\* detector, `is None` of the field for the others
is_initialized(h) ==
    IF h = "detector" THEN handles[h].initialized ELSE handles[h].value # 0

LazyInit ==
    /\ config = DefaultConfig
    /\ yolo_loadable = TRUE
    /\ RecIdle
    /\ JobIdle
    /\ LazyIdle
    /\ FnIdle

\* a thread enters the accessor of h and tests whether h is initialised
Enter(t, h) ==
    /\ threads[t].pc = "idle"
    /\ threads' = [threads EXCEPT ![t] =
                     [pc |-> IF is_initialized(h) THEN "return" ELSE "construct",
                      handle |-> h, instance |-> 0]]
    /\ UNCHANGED <<fnVars, svcVars, callVars, jobVars, handles, constructed, observed>>

\* the thread constructs an instance (YOLOPlateDetector(...), YOLO(...),
\* easyocr.Reader(...), RecognitionService())
Construct(t) ==
    /\ threads[t].pc = "construct"
    /\ constructed' = [constructed EXCEPT ![threads[t].handle] = @ + 1]
    /\ threads' = [threads EXCEPT ![t].pc = "assign",
                                  ![t].instance = constructed'[threads[t].handle]]
    /\ UNCHANGED <<fnVars, svcVars, callVars, jobVars, handles, observed>>

\* the thread stores the instance in the field
Assign(t) ==
    /\ threads[t].pc = "assign"
    /\ handles' = [handles EXCEPT ![threads[t].handle].value = threads[t].instance]
    /\ threads' = [threads EXCEPT ![t].pc =
                     IF threads[t].handle = "detector" THEN "flag" ELSE "return"]
    /\ UNCHANGED <<fnVars, svcVars, callVars, jobVars, constructed, observed>>

\* self._detector_initialized = True (recognition.py 128)
SetInitialized(t) ==
    /\ threads[t].pc = "flag"
    /\ handles' = [handles EXCEPT ![threads[t].handle].initialized = TRUE]
    /\ threads' = [threads EXCEPT ![t].pc = "return"]
    /\ UNCHANGED <<fnVars, svcVars, callVars, jobVars, constructed, observed>>

\* the accessor returns what the field holds now
Return(t) ==
    /\ threads[t].pc = "return"
    /\ observed' = [observed EXCEPT ![threads[t].handle] =
                      @ \cup {handles[threads[t].handle].value}]
    /\ threads' = [threads EXCEPT ![t] =
                     [pc |-> "idle", handle |-> "none", instance |-> 0]]
    /\ UNCHANGED <<fnVars, svcVars, callVars, jobVars, handles, constructed>>

LazyNext ==
    \/ \E t \in Threads, h \in Handles : Enter(t, h)
    \/ \E t \in Threads : Construct(t)
    \/ \E t \in Threads : Assign(t)
    \/ \E t \in Threads : SetInitialized(t)
    \/ \E t \in Threads : Return(t)

SpecLazy == LazyInit /\ [][LazyNext]_vars

\* C11: under concurrent first access each lazily initialised handle is
\* constructed at most once and every caller is returned the same instance
C11_HandlesConstructedOnce ==
    \A h \in Handles :
        /\ constructed[h] <= 1
        /\ Cardinality(observed[h]) <= 1

(***************************************************************************)
(* The functions of the validation, OCR and detection packages, each       *)
(* called once on arguments drawn from bounded sets.                       *)
(***************************************************************************)
\* the characters the seven-character texts are made of: a letter and a
\* digit each table corrects (I, 1), a letter and a digit no table holds
PlateChars == {"A", "I", "1", "4"}

\* the texts of the length of a plate over these characters
PlateTexts == [1..get_plate_length("BR_OLD") -> PlateChars]

OtherTexts ==
    { <<"A", "B", "C", "I", "2", "3", "4">>,
      <<"A", "B", "C", "1", "D", "2", "3">>,
      <<"a", "b", "c", "-", "1", "d", "2", "3">>,
      <<"A", "B", "C", " ", "1", "2", "3", "4">>,
      <<"A", "B", "C", ".", "1", "D", "2", "3">>,
      <<"0", "B", "C", "1", "D", "2", "3">>,
      <<"A", "B", "C", "1", "2">>,
      <<"A", "B", "C", "1", "2", "3", "4", "5", "6">>,
      <<"B", "R", "A", "S", "I", "L">>,
      <<"b", "r", "a", "z", "i", "l">>,
      <<"M", "E", "R", "C", "O", "S", "U", "L">>,
      <<"M", "E", "R", "C", "O", "S", "U", "R">>,
      <<"B", "R">>,
      <<"B", ".", "R">>,
      <<"-", "-", "-">>,
      <<>> }

OcrConfidences == {R(8, 10), R(1, 10), R(95, 100)}

Regions == {"BR", NoneStr}

ValidateCalls ==
    [fn : {"validate"}, text : PlateTexts \cup OtherTexts,
     ocr_confidence : OcrConfidences, region : Regions]

\* the segments a reader reports: words of the plate frame, halves of a
\* plate, a plate behind a word; confidences on both sides of 0.3
SegmentTexts ==
    { <<"B", "R", "A", "S", "I", "L">>,
      <<"B", "R">>,
      <<"A", "B", "C">>,
      <<"1", "D", "2", "3">>,
      <<"B", "R", "A", "S", "I", "L", " ", "A", "B", "C", "1", "D", "2", "3">> }

Segments == [text : SegmentTexts, conf : {R(95, 100), R(5, 10), R(2, 10)}]

MaxSegments == 3

\* a plate read in two halves
SplitPlate == <<Seg(<<"A", "B", "C">>, R(8, 10)), Seg(<<"1", "D", "2", "3">>, R(85, 100))>>

\* readings of four segments: all pass, one in the middle does not
LongReadings ==
    { <<Seg(<<"B", "R">>, R(95, 100)), Seg(<<"A", "B", "C">>, R(95, 100)),
        Seg(<<"1", "D", "2", "3">>, R(5, 10)), Seg(<<"B", "R", "A", "S", "I", "L">>, R(5, 10))>>,
      <<Seg(<<"A", "B", "C">>, R(95, 100)), Seg(<<"B", "R">>, R(2, 10)),
        Seg(<<"1", "D", "2", "3">>, R(95, 100)), Seg(<<"B", "R">>, R(5, 10))>> }

\* the reader's outputs: all of at most MaxSegments segments, and the above
SegmentLists ==
    UNION {[1..n -> Segments] : n \in 0..MaxSegments} \cup {SplitPlate} \cup LongReadings

OcrResults == {extract_text(results, FALSE) : results \in SegmentLists}

ValidateOcrResultCalls == [fn : {"validate_ocr_result"}, ocr : OcrResults]

\* candidates that validate exactly, after two corrections, not at all
\* (a blacklisted word), with a length penalty, and without a format
CandidateTexts ==
    { <<"A", "B", "C", "1", "D", "2", "3">>,
      <<"A", "B", "C", "I", "2", "I", "4">>,
      <<"B", "R", "A", "S", "I", "L">>,
      <<"A", "B", "C", "1", "2">>,
      <<"A", "B", "C", "D", "E", "F", "7">> }

Candidates == {<<t, c>> : t \in CandidateTexts, c \in {R(8, 10), R(1, 10)}}

MaxCandidates == 3

CandidateLists == UNION {[1..n -> Candidates] : n \in 0..MaxCandidates}

ValidateBatchCalls ==
    [fn : {"validate_batch"}, candidates : CandidateLists, region : {default_region}]

MatchCalls == [fn : {"match"}, text : OtherTexts]

MatchWithRegionCalls == [fn : {"match_with_region"}, text : OtherTexts, region : Regions]

NormalizeCalls == [fn : {"_normalize"}, text : OtherTexts]

\* characters in and out of both tables, in both cases
CorrectionChars == Letters \cup Digits \cup {"i", "o", "a", "-"}

GetCorrectionCalls ==
    [fn : {"get_correction"}, rule : Range(RuleNames), char : CorrectionChars,
     position : 0..get_plate_length("BR_OLD")]

ApplyCorrectionsCalls ==
    [fn : {"_apply_corrections"}, text : PlateTexts \cup OtherTexts, rule : Range(RuleNames)]

\* boxes at and near the image's origin and further inside
CropBoxes == [x : {0, 5, 100}, y : {0, 5, 40}, width : {20, 95, 190}, height : {10, 50}]

Paddings == {0, 10, 30}

\* crop_plate on an image, a detection whose box lies in it, and a padding
CropPlateCalls ==
    {c \in [fn : {"crop_plate"}, image : Images, padding : Paddings,
            detection : {DetectionResult(b, R(9, 10), <<"p", "l", "a", "t", "e">>) :
                            b \in CropBoxes}] :
        /\ c.detection.bounding_box.x + c.detection.bounding_box.width <= c.image.w
        /\ c.detection.bounding_box.y + c.detection.bounding_box.height <= c.image.h}

\* the boxes an inference reports: plate classes in two spellings, a
\* vehicle and a class of neither kind, at two confidences
InferenceBoxes ==
    {Box(400, 300, 560, 350, c, n) :
        c \in {R(9, 10), R(6, 10)},
        n \in { <<"l", "i", "c", "e", "n", "s", "e", "_", "p", "l", "a", "t", "e">>,
                <<"N", "u", "m", "b", "e", "r", "-", "P", "l", "a", "t", "e">>,
                <<"c", "a", "r">>,
                <<"p", "e", "r", "s", "o", "n">> }}

MaxBoxes == 3

BoxLists == UNION {[1..n -> InferenceBoxes] : n \in 0..MaxBoxes}

DetectAllCalls == [fn : {"detect_all"}, boxes : BoxLists]

DetectCalls == [fn : {"detect"}, boxes : BoxLists]

FnInit ==
    /\ config = DefaultConfig
    /\ yolo_loadable = TRUE
    /\ RecIdle
    /\ JobIdle
    /\ LazyIdle
    /\ fn_pc = "call"
    /\ fn_return = <<>>
    /\ \/ fn_call \in ValidateCalls
       \/ fn_call \in ValidateOcrResultCalls
       \/ fn_call \in ValidateBatchCalls
       \/ fn_call \in MatchCalls
       \/ fn_call \in MatchWithRegionCalls
       \/ fn_call \in NormalizeCalls
       \/ fn_call \in GetCorrectionCalls
       \/ fn_call \in ApplyCorrectionsCalls
       \/ fn_call \in CropPlateCalls
       \/ fn_call \in DetectAllCalls
       \/ fn_call \in DetectCalls

\* what the call made returns
Returns(value) ==
    /\ fn_pc = "call"
    /\ fn_return' = value
    /\ fn_pc' = "return"
    /\ UNCHANGED <<svcVars, callVars, jobVars, lazyVars, fn_call>>

Validate ==
    /\ fn_call.fn = "validate"
    /\ Returns(validate(fn_call.text, fn_call.ocr_confidence, fn_call.region))

ValidateOcrResult ==
    /\ fn_call.fn = "validate_ocr_result"
    /\ Returns(validate_ocr_result(fn_call.ocr))

ValidateBatch ==
    /\ fn_call.fn = "validate_batch"
    /\ Returns(validate_batch(fn_call.candidates, fn_call.region))

\* PlateFormatRegistry.match
Match ==
    /\ fn_call.fn = "match"
    /\ Returns(match(fn_call.text))

\* PlateFormatRegistry.match_with_region
MatchWithRegion ==
    /\ fn_call.fn = "match_with_region"
    /\ Returns(match_with_region(fn_call.text, fn_call.region))

\* PlateValidator._normalize
Normalize ==
    /\ fn_call.fn = "_normalize"
    /\ Returns(PlateValidator_normalize(fn_call.text))

GetCorrection ==
    /\ fn_call.fn = "get_correction"
    /\ Returns(get_correction(fn_call.rule, fn_call.char, fn_call.position))

\* PlateValidator._apply_corrections: <<corrected text, corrections>>
ApplyCorrections ==
    /\ fn_call.fn = "_apply_corrections"
    /\ Returns(apply_corrections(fn_call.text, fn_call.rule))

\* PlateDetector.crop_plate
CropPlate ==
    /\ fn_call.fn = "crop_plate"
    /\ Returns(crop_plate(fn_call.image, fn_call.detection, fn_call.padding))

\* YOLOPlateDetector.detect_all on an inference that reports boxes
DetectAll ==
    /\ fn_call.fn = "detect_all"
    /\ Returns(yolo_detect_all(fn_call.boxes, FALSE))

\* YOLOPlateDetector.detect
Detect ==
    /\ fn_call.fn = "detect"
    /\ Returns(yolo_detect(fn_call.boxes, FALSE))

FnNext ==
    \/ Validate
    \/ ValidateOcrResult
    \/ ValidateBatch
    \/ Match
    \/ MatchWithRegion
    \/ Normalize
    \/ GetCorrection
    \/ ApplyCorrections
    \/ CropPlate
    \/ DetectAll
    \/ Detect

SpecFn == FnInit /\ [][FnNext]_vars

\* a call of fn has returned
Returned(fn) == fn_pc = "return" /\ fn_call.fn = fn

\* the positions of text whose character is not of the class rule expects
Mismatches(text, rule) ==
    {p \in 0..(Len(text) - 1) :
        \/ get_position_type(rule, p) = "letter" /\ text[p + 1] \notin Letters
        \/ get_position_type(rule, p) = "digit" /\ text[p + 1] \notin Digits}

\* every such position holds a character of the table for the class expected
TableCorrects(text, rule) ==
    \A p \in Mismatches(text, rule) :
        \/ get_position_type(rule, p) = "letter" /\ text[p + 1] \in DOMAIN digit_to_letter
        \/ get_position_type(rule, p) = "digit" /\ text[p + 1] \in DOMAIN letter_to_digit

\* the call validates seven upper-case alphanumeric characters that k >= 1
\* table corrections make exact for rule, the rule with the fewest
\* positions out of class
CorrectableBy(rule, k) ==
    /\ Returned("validate")
    /\ Len(fn_call.text) = 7
    /\ \A i \in DOMAIN fn_call.text : fn_call.text[i] \in Letters \cup Digits
    /\ k = Cardinality(Mismatches(fn_call.text, rule))
    /\ k >= 1
    /\ TableCorrects(fn_call.text, rule)
    /\ \A i \in DOMAIN RuleNames :
          Cardinality(Mismatches(fn_call.text, RuleNames[i])) >= k

\* C13 as stated: ("ABCI234", 0.8, BR) gives ABC1234, BR_OLD, valid, the one
\* correction I to 1 at position 3 and confidence 0.75; a seven-character
\* candidate exact after k table corrections is valid with confidence
\* max(0, ocr_conf - 0.05 k)
C13_ConfidenceMinusPenalty ==
    /\ (/\ Returned("validate")
        /\ fn_call.text = <<"A", "B", "C", "I", "2", "3", "4">>
        /\ fn_call.ocr_confidence = R(8, 10)
        /\ fn_call.region = "BR") =>
          /\ fn_return.text = <<"A", "B", "C", "1", "2", "3", "4">>
          /\ fn_return.format_name = "BR_OLD"
          /\ fn_return.is_valid
          /\ Len(fn_return.corrections_made) = 1
          /\ fn_return.corrections_made[1].position = 3
          /\ fn_return.corrections_made[1].original = "I"
          /\ fn_return.corrections_made[1].corrected = "1"
          /\ fn_return.confidence = R(75, 100)
    /\ \A i \in DOMAIN RuleNames, k \in 1..7 :
          CorrectableBy(RuleNames[i], k) =>
              /\ fn_return.is_valid
              /\ fn_return.confidence =
                    RMax(Zero, RSub(fn_call.ocr_confidence, R(5 * k, 100)))

\* C13 amended: the confidence is max(0, ocr_conf * s - 0.05 k) with s the
\* match score of the uncorrected text, 1 - 0.1 k for seven characters, so
\* ("ABCI234", 0.8, BR) gives 0.67; text, format, validity and corrections
\* are as stated
C13_ConfidenceScaledMinusPenalty ==
    /\ (/\ Returned("validate")
        /\ fn_call.text = <<"A", "B", "C", "I", "2", "3", "4">>
        /\ fn_call.ocr_confidence = R(8, 10)
        /\ fn_call.region = "BR") =>
          /\ fn_return.text = <<"A", "B", "C", "1", "2", "3", "4">>
          /\ fn_return.format_name = "BR_OLD"
          /\ fn_return.is_valid
          /\ Len(fn_return.corrections_made) = 1
          /\ fn_return.corrections_made[1].position = 3
          /\ fn_return.corrections_made[1].original = "I"
          /\ fn_return.corrections_made[1].corrected = "1"
          /\ fn_return.confidence = R(67, 100)
    /\ \A i \in DOMAIN RuleNames, k \in 1..7 :
          CorrectableBy(RuleNames[i], k) =>
              /\ fn_return.is_valid
              /\ fn_return.format_name = RuleNames[i]
              /\ pattern_matches(RuleNames[i], fn_return.text)
              /\ Len(fn_return.corrections_made) = k
              /\ fn_return.confidence =
                    RMax(Zero, RSub(RMul(fn_call.ocr_confidence, R(10 - k, 10)),
                                    R(5 * k, 100)))

\* a text three corrections make exact, at a confidence the penalty exhausts
C13_Witness ==
    /\ CorrectableBy("BR_MERCOSUL", 3)
    /\ fn_call.ocr_confidence = R(1, 10)
    /\ fn_return.is_valid
    /\ fn_return.confidence = Zero

\* every candidate assembled from the OCR result normalizes to a
\* blacklisted word, and there is one
AllBlacklisted(candidates) ==
    /\ candidates # <<>>
    /\ \A i \in DOMAIN candidates :
          PlateValidator_normalize(candidates[i][1]) \in BLACKLIST

\* C14 as stated: when every candidate normalizes to a blacklisted word the
\* validation result the orchestrator scores with is invalid with
\* confidence 0; validate answers a blacklisted text before testing its
\* length or format
C14_BlacklistedScoresZero ==
    /\ (Returned("validate_ocr_result")
        /\ AllBlacklisted(assemble_candidates(fn_call.ocr))) =>
          /\ ~fn_return.is_valid
          /\ fn_return.confidence = Zero
    /\ (Returned("validate")
        /\ PlateValidator_normalize(fn_call.text) \in BLACKLIST) =>
          /\ ~fn_return.is_valid
          /\ fn_return.confidence = Zero
          /\ fn_return.format_name = NoneStr

\* C14 amended: validate gives a blacklisted text confidence 0 before any
\* other test, validate_batch then keeps nothing, and the result the
\* orchestrator scores with is the first candidate, invalid, with 0.3 times
\* its OCR confidence
C14_BlacklistedFallsBackToFirst ==
    /\ (Returned("validate_ocr_result")
        /\ AllBlacklisted(assemble_candidates(fn_call.ocr))) =>
          /\ validate_batch(assemble_candidates(fn_call.ocr), default_region) = NoValidation
          /\ ~fn_return.is_valid
          /\ fn_return.text = assemble_candidates(fn_call.ocr)[1][1]
          /\ fn_return.confidence =
                RMul(assemble_candidates(fn_call.ocr)[1][2], R(3, 10))
    /\ (Returned("validate")
        /\ PlateValidator_normalize(fn_call.text) \in BLACKLIST) =>
          /\ ~fn_return.is_valid
          /\ fn_return.confidence = Zero
          /\ fn_return.format_name = NoneStr

\* the reader reports the one segment ("BRASIL", 0.95)
C14_Witness ==
    /\ Returned("validate_ocr_result")
    /\ fn_call.ocr.raw_results = <<Seg(<<"B", "R", "A", "S", "I", "L">>, R(95, 100))>>
    /\ AllBlacklisted(assemble_candidates(fn_call.ocr))
    /\ fn_return.confidence = R(57, 200)

\* what validate gives the i-th candidate of the call
Validated(i) ==
    validate(fn_call.candidates[i][1], fn_call.candidates[i][2], fn_call.region)

\* the positions of the candidates validate_batch keeps
Kept ==
    {i \in DOMAIN fn_call.candidates :
        Validated(i).is_valid \/ RGt(Validated(i).confidence, Zero)}

Passing(ocr) ==
    {i \in DOMAIN ocr.raw_results : RGe(ocr.raw_results[i].conf, min_ocr_confidence)}

\* C16: the candidate list handed to validate_batch holds no two entries
\* with the same text, whatever the OCR result, and a text carries the
\* confidence of its first production; for a text of the raw segments that
\* is the highest confidence of a passing segment with that text
C16_CandidatesDistinct ==
    Returned("validate_ocr_result") =>
        LET candidates == assemble_candidates(fn_call.ocr)
        IN  /\ \A i, j \in DOMAIN candidates :
                  candidates[i][1] = candidates[j][1] => i = j
            /\ \A k \in Passing(fn_call.ocr) :
                  \E i \in DOMAIN candidates :
                      /\ candidates[i][1] = fn_call.ocr.raw_results[k].text
                      /\ \A n \in Passing(fn_call.ocr) :
                            fn_call.ocr.raw_results[n].text = candidates[i][1] =>
                                RLe(fn_call.ocr.raw_results[n].conf, candidates[i][2])

\* text without its non-alphanumeric characters, in upper case
AlnumUpper(text) ==
    MapUpper(SelectSeq(text, LAMBDA c : c \in Letters \cup Lowers \cup Digits))

\* C17: match and match_with_region give a text the rule and score of its
\* alphanumeric upper-case normalization; the validator's normalization is
\* idempotent and outputs only characters of A-Z and 0-9
C17_MatchOnAlnumUpper ==
    /\ Returned("match") => fn_return = match(AlnumUpper(fn_call.text))
    /\ Returned("match_with_region") =>
          fn_return = match_with_region(AlnumUpper(fn_call.text), fn_call.region)
    /\ Returned("_normalize") =>
          /\ PlateValidator_normalize(fn_return) = fn_return
          /\ \A i \in DOMAIN fn_return : fn_return[i] \in Letters \cup Digits

\* C18: at a position expecting a letter get_correction answers from the
\* digit-to-letter table only, at one expecting a digit from the
\* letter-to-digit table only; a character of the expected class or absent
\* from the table gets no correction; a corrected character is of the
\* expected class; _apply_corrections records corrections in increasing
\* position order and finds nothing to correct in its own output
C18_CorrectionsFollowPositionType ==
    /\ (Returned("get_correction") /\ fn_call.position <= 6) =>
          LET expected_type == position_types(fn_call.rule)[fn_call.position + 1]
              c == fn_call.char
          IN  /\ expected_type = "letter" =>
                    /\ fn_return # NoneStr =>
                          /\ c \in DOMAIN digit_to_letter
                          /\ fn_return = digit_to_letter[c]
                          /\ fn_return \in Letters
                    /\ (c \in Letters \cup Lowers \/ c \notin DOMAIN digit_to_letter) =>
                          fn_return = NoneStr
              /\ expected_type = "digit" =>
                    /\ fn_return # NoneStr =>
                          /\ Upper(c) \in DOMAIN letter_to_digit
                          /\ fn_return = letter_to_digit[Upper(c)]
                          /\ fn_return \in Digits
                    /\ (c \in Digits \/ Upper(c) \notin DOMAIN letter_to_digit) =>
                          fn_return = NoneStr
    /\ Returned("_apply_corrections") =>
          /\ \A i, j \in DOMAIN fn_return[2] :
                i < j => fn_return[2][i].position < fn_return[2][j].position
          /\ \A i \in DOMAIN fn_return[2] :
                /\ fn_return[2][i].original = fn_call.text[fn_return[2][i].position + 1]
                /\ fn_return[2][i].corrected = fn_return[1][fn_return[2][i].position + 1]
          /\ apply_corrections(fn_return[1], fn_call.rule) = <<fn_return[1], <<>>>>

\* _apply_corrections has corrected a letter and a digit
C18_Witness ==
    /\ Returned("_apply_corrections")
    /\ Len(fn_return[2]) >= 2
    /\ \E i, j \in DOMAIN fn_return[2] :
          /\ fn_return[2][i].reason = "expected_letter"
          /\ fn_return[2][j].reason = "expected_digit"

\* C19: for an in-bounds box and a padding p >= 0 crop_plate returns the
\* region [max(0, x-p), min(W, x+width+p)) x [max(0, y-p), min(H, y+height+p)),
\* the box grown by p on each side and no more, and the padded box lies
\* in the image
C19_CropGrowsByPadding ==
    Returned("crop_plate") =>
        LET box == fn_call.detection.bounding_box
            p == fn_call.padding
            padded == add_padding(box, p, fn_call.image)
        IN  /\ fn_return =
                  Region(Max(0, box.x - p), Max(0, box.y - p),
                         Min(fn_call.image.w, box.x + box.width + p),
                         Min(fn_call.image.h, box.y + box.height + p))
            /\ 0 <= padded.x
            /\ 0 <= padded.y
            /\ padded.x + padded.width <= fn_call.image.w
            /\ padded.y + padded.height <= fn_call.image.h

\* the positions of the plate-class boxes of the inference
PlateBoxes == {i \in DOMAIN fn_call.boxes : is_plate_class(fn_call.boxes[i].class_name)}

\* C20: vehicle-class detections are accepted only when the inference holds
\* no plate-class box; with a plate-class box present detect_all returns
\* plate-class boxes only, by confidence descending, and detect returns the
\* plate-class box of the highest confidence
C20_VehiclesOnlyWithoutPlates ==
    /\ (Returned("detect_all") /\ PlateBoxes # {}) =>
          /\ \A i \in DOMAIN fn_return : is_plate_class(fn_return[i].class_name)
          /\ \A i, j \in DOMAIN fn_return :
                i < j => RGe(fn_return[i].confidence, fn_return[j].confidence)
    /\ (Returned("detect") /\ PlateBoxes # {}) =>
          /\ is_plate_class(fn_return.class_name)
          /\ \A i \in PlateBoxes : RGe(fn_return.confidence, fn_call.boxes[i].conf)


\* the run of n segments from the i-th on (1-based)
RunAt(raw, run) == SubSeq(raw, run[1], run[1] + run[2] - 1)

\* the runs of 2 or 3 consecutive segments that all pass min_ocr_confidence
Runs(raw) ==
    {run \in (1..Len(raw)) \X {2, 3} :
        /\ run[1] + run[2] - 1 <= Len(raw)
        /\ \A k \in run[1]..(run[1] + run[2] - 1) :
              RGe(raw[k].conf, min_ocr_confidence)}

RunText(raw, run) == Join(SegTexts(RunAt(raw, run)))

RunMean(raw, run) == RDivInt(RSum(SegConfs(RunAt(raw, run))), run[2])

\* the run's text is a candidate before the run's turn: a segment that
\* passes, the combined text, or the text of a run the loops reach earlier
AlreadyCandidate(ocr, run) ==
    \/ \E k \in 1..Len(ocr.raw_results) :
          /\ RGe(ocr.raw_results[k].conf, min_ocr_confidence)
          /\ ocr.raw_results[k].text = RunText(ocr.raw_results, run)
    \/ /\ ocr.text # <<>>
       /\ RGe(ocr.confidence, min_ocr_confidence)
       /\ ocr.text = RunText(ocr.raw_results, run)
    \/ \E e \in Runs(ocr.raw_results) :
          /\ e[1] < run[1] \/ (e[1] = run[1] /\ e[2] < run[2])
          /\ RunText(ocr.raw_results, e) = RunText(ocr.raw_results, run)

\* the candidates before the concatenation step (lines 265-275)
BeforeConcat(ocr) == AddCombined(ocr, get_candidates(ocr, min_ocr_confidence))

\* the candidates the concatenation step appends (lines 279-287)
AddedByConcat(ocr) ==
    SubSeq(ConcatOuter(ocr.raw_results, 0, BeforeConcat(ocr)),
           Len(BeforeConcat(ocr)) + 1,
           Len(ConcatOuter(ocr.raw_results, 0, BeforeConcat(ocr))))

\* C29: for every run of 2 or 3 consecutive raw segments that all have
\* confidence >= min_ocr_confidence the candidate list holds their
\* concatenation, with the mean of the run as confidence when the text was
\* not a candidate already; the step adds no concatenation that holds a
\* segment below the threshold or spans more than 3 segments; for
\* [("ABC", 0.8), ("1D23", 0.85)] the candidate ABC1D23 is there with
\* confidence 0.825 and validates exactly
C29_AdjacentSegmentsConcatenated ==
    Returned("validate_ocr_result") =>
        /\ \A run \in Runs(fn_call.ocr.raw_results) :
              /\ HasText(assemble_candidates(fn_call.ocr),
                         RunText(fn_call.ocr.raw_results, run))
              /\ ~AlreadyCandidate(fn_call.ocr, run) =>
                    \E k \in DOMAIN assemble_candidates(fn_call.ocr) :
                        assemble_candidates(fn_call.ocr)[k] =
                            <<RunText(fn_call.ocr.raw_results, run),
                              RunMean(fn_call.ocr.raw_results, run)>>
        /\ \A k \in DOMAIN AddedByConcat(fn_call.ocr) :
              \E run \in Runs(fn_call.ocr.raw_results) :
                  /\ ~AlreadyCandidate(fn_call.ocr, run)
                  /\ AddedByConcat(fn_call.ocr)[k] =
                        <<RunText(fn_call.ocr.raw_results, run),
                          RunMean(fn_call.ocr.raw_results, run)>>
        /\ fn_call.ocr.raw_results = SplitPlate =>
              /\ \E k \in DOMAIN assemble_candidates(fn_call.ocr) :
                    assemble_candidates(fn_call.ocr)[k] =
                        <<<<"A", "B", "C", "1", "D", "2", "3">>, R(825, 1000)>>
              /\ fn_return.is_valid
              /\ fn_return.text = <<"A", "B", "C", "1", "D", "2", "3">>
              /\ fn_return.original_text = fn_return.text
              /\ fn_return.corrections_made = <<>>
              /\ fn_return.confidence = R(825, 1000)

\* four segments of which the second fails: the step adds the one run of
\* two that passes, with its mean, and nothing that spans the failing one
C29_Witness ==
    /\ Returned("validate_ocr_result")
    /\ Len(fn_call.ocr.raw_results) = 4
    /\ Runs(fn_call.ocr.raw_results) = {<<3, 2>>}
    /\ AddedByConcat(fn_call.ocr) =
          << <<<<"1", "D", "2", "3", "B", "R">>, R(725, 1000)>> >>

=============================================================================
